---------------------------- MODULE Spec2Model ----------------------------
(***************************************************************************)
(* Response normalisation and tolerant JSON recovery of swift-ai-api:     *)
(* the text sanitizers (mcp/agents/utils.py), the three response parsers  *)
(* (_parse_openai_response, _parse_gemini_response,                       *)
(* _parse_claude_response), the legacy fix_malformed_json helper, the     *)
(* pydantic schemas of mcp/agents/ai_models.py and the function-call      *)
(* post-processing of google_agent.py / openai_agent.py.                  *)
(*                                                                         *)
(* A text is a sequence of symbols.  A symbol is one character, or a run  *)
(* of letters (a word) kept whole; the character after a backslash is     *)
(* always a symbol of its own.  Every scan and every regular expression   *)
(* of the source treats the letters of a run alike, so a run behaves as   *)
(* its characters do.                                                      *)
(***************************************************************************)
EXTENDS Integers, Sequences, FiniteSets, TLC

(***************************************************************************)
(* Symbol classes.                                                         *)
(***************************************************************************)
\* Python's \s and str.strip() whitespace that occurs in the texts.
WS == {" ", "\n", "\t", "\r"}

\* Characters below 0x20: illegal raw inside a strict JSON string.
ControlChars == {"\n", "\t", "\r"}

Digits == {"0", "1", "2", "3", "4", "5", "6", "7", "8", "9"}

\* Letter runs ([a-zA-Z]+) that occur in the texts.
Words ==
  {"a", "b", "c", "n", "t", "r", "x", "y", "json", "swift", "unterminated",
   "topic", "name", "platform", "technology", "question", "tags", "text",
   "ARC", "iOS", "Swift", "Q", "What", "is", "Sure", "Here", "s", "the",
   "JSON", "I", "cannot", "answer", "that", "done", "let", "error", "Bad",
   "true", "false", "null", "undefined", "NaN", "Infinity",
   "answerLevels", "beginner", "intermediate", "advanced", "Beginner",
   "Intermediate", "Advanced", "Expert", "tests", "snippet", "options",
   "evaluationCriteria", "recommendations", "passed", "comments", "ok"}

\* Field names with underscores: kept whole, they occur only between
\* quotes, where every scan of the source passes over them unchanged.
Names ==
  {"is_text_clear", "is_question_correspond", "is_question_not_trivial",
   "do_answer_levels_exist", "are_answer_levels_valid",
   "has_evaluation_criteria", "are_answer_levels_different",
   "do_tests_exist", "do_tags_exist", "do_test_options_exist",
   "is_question_text_different_from_existing_questions",
   "are_test_options_numbered", "does_answer_contain_option_number",
   "are_code_blocks_marked_if_they_exist", "does_snippet_have_question",
   "does_snippet_have_code", "clarity_score", "relevance_score",
   "difficulty_score", "structure_score", "code_quality_score",
   "quality_score", "clarity_feedback", "relevance_feedback",
   "difficulty_feedback", "structure_feedback", "code_quality_feedback",
   "evaluation_criteria", "are_code_blocks_marked", "validation_comments"}

\* The backtick character.
BQ == "BACKTICK"
DQ == "\""
SQ == "'"
BS == "\\"

(***************************************************************************)
(* Python string primitives.  Positions are 1-based; 0 stands for         *)
(* Python's -1 ("not found").                                              *)
(***************************************************************************)
\* The least and the greatest element of a set of positions (0 if empty).
First(I) == IF I = {} THEN 0 ELSE CHOOSE i \in I : \A j \in I : i <= j
Last(I) == IF I = {} THEN 0 ELSE CHOOSE i \in I : \A j \in I : j <= i

\* str.find(c)
Find(s, c) == First({i \in 1..Len(s) : s[i] = c})

\* str.rfind(c)
RFind(s, c) == Last({i \in 1..Len(s) : s[i] = c})

\* s[i-1:j] of Python for 1 <= i: the symbols at positions i..j.
Slice(s, i, j) ==
  IF i > j \/ i > Len(s) THEN <<>>
  ELSE SubSeq(s, i, IF j > Len(s) THEN Len(s) ELSE j)

RECURSIVE SkipSet(_, _, _)
\* First position >= i whose symbol is not in set S (Len(s)+1 if none).
SkipSet(s, i, S) ==
  IF i > Len(s) THEN i
  ELSE IF s[i] \in S THEN SkipSet(s, i + 1, S)
  ELSE i

RECURSIVE SkipBackSet(_, _, _)
\* Last position <= i whose symbol is not in set S (0 if none).
SkipBackSet(s, i, S) ==
  IF i < 1 THEN 0
  ELSE IF s[i] \in S THEN SkipBackSet(s, i - 1, S)
  ELSE i

\* str.strip(chars)
StripSet(s, S) == Slice(s, SkipSet(s, 1, S), SkipBackSet(s, Len(s), S))

\* str.strip()
Strip(s) == StripSet(s, WS)

\* str.rstrip()
RStrip(s) == Slice(s, 1, SkipBackSet(s, Len(s), WS))

\* Whether the three symbols at i..i+2 are backticks.
FenceAt(s, i) ==
  /\ i >= 1
  /\ i + 2 <= Len(s)
  /\ s[i] = BQ /\ s[i + 1] = BQ /\ s[i + 2] = BQ

\* First position >= i where a triple backtick starts (0 if none).
NextFence(s, i) == First({j \in i..Len(s) : FenceAt(s, j)})


(***************************************************************************)
(* Text sanitizers (mcp_server/mcp/agents/utils.py).                       *)
(***************************************************************************)
\* escape_json_strings on a str: every backslash, double quote, newline,
\* carriage return and tab becomes its two-character escape.  The three
\* re.sub passes that follow find no raw control character left.
EscapeSym(c) ==
  CASE c = BS   -> <<BS, BS>>
    [] c = DQ   -> <<BS, DQ>>
    [] c = "\n" -> <<BS, "n">>
    [] c = "\r" -> <<BS, "r">>
    [] c = "\t" -> <<BS, "t">>
    [] OTHER    -> <<c>>

RECURSIVE EscapeRange(_, _, _)
\* The replacements over the symbols lo..hi, by halves.
EscapeRange(s, lo, hi) ==
  IF lo > hi THEN <<>>
  ELSE IF lo = hi THEN EscapeSym(s[lo])
  ELSE LET mid == (lo + hi) \div 2
       IN  EscapeRange(s, lo, mid) \o EscapeRange(s, mid + 1, hi)

escape_json_strings(s) == EscapeRange(s, 1, Len(s))

\* remove_triple_backticks_from_outer_markdown: re.match of
\* ^BQ{3}[a-zA-Z]*\s*([\s\S]*?)\s*BQ{3}$ on text.strip(); group 1 on a match,
\* the text as given otherwise.
remove_triple_backticks_from_outer_markdown(text) ==
  LET s == Strip(text)
      n == Len(s)
  IN  IF n >= 6 /\ FenceAt(s, 1) /\ FenceAt(s, n - 2)
      THEN LET p == SkipSet(s, SkipSet(s, 4, Words), WS)
           IN  RStrip(Slice(s, p, n - 3))
      ELSE text

\* One turn of the loop of fix_unterminated_strings_in_json on the flags
\* <<in_string, escape>>.
ScanStep(st, c) ==
  IF ~st[1] THEN <<c = DQ, st[2]>>
  ELSE IF st[2] THEN <<TRUE, FALSE>>
  ELSE IF c = BS THEN <<TRUE, TRUE>>
  ELSE IF c = DQ THEN <<FALSE, FALSE>>
  ELSE <<TRUE, FALSE>>

RECURSIVE ScanRange(_, _, _)
\* The loop over the symbols lo..hi as a map from the flags before to the
\* flags after, composed by halves.
ScanRange(s, lo, hi) ==
  IF lo = hi THEN [st \in BOOLEAN \X BOOLEAN |-> ScanStep(st, s[lo])]
  ELSE LET mid == (lo + hi) \div 2
           a == ScanRange(s, lo, mid)
           b == ScanRange(s, mid + 1, hi)
       IN  [st \in BOOLEAN \X BOOLEAN |-> b[a[st]]]

\* in_string after the last symbol.
InStringAtEnd(s) ==
  IF s = <<>> THEN FALSE ELSE ScanRange(s, 1, Len(s))[<<FALSE, FALSE>>][1]

\* Mutation: every quote opens or closes a string, escaped or not.
fix_unterminated_escapes_ignored(text) ==
  IF Cardinality({i \in 1..Len(text) : text[i] = DQ}) % 2 = 1
  THEN Append(text, DQ) ELSE text

fix_unterminated_strings_in_json(text) ==
  IF InStringAtEnd(text) THEN Append(text, DQ) ELSE text

RECURSIVE ConcatRange(_, _, _)
\* ''.join(result): the pieces lo..hi one after the other, by halves.
ConcatRange(parts, lo, hi) ==
  IF lo > hi THEN <<>>
  ELSE IF lo = hi THEN parts[lo]
  ELSE ConcatRange(parts, lo, (lo + hi) \div 2)
         \o ConcatRange(parts, (lo + hi) \div 2 + 1, hi)

\* escape_newlines_in_json_strings: the loop keeps the flags in_string and
\* escape as fix_unterminated_strings_in_json does; a line feed or a
\* carriage return met inside a string, not after a backslash, is written
\* as its two-character escape; every other symbol (a tab too) is written
\* as it is.
escape_newlines_in_json_strings(text) ==
  LET Before(i) ==
        IF i = 1 THEN <<FALSE, FALSE>>
        ELSE ScanRange(text, 1, i - 1)[<<FALSE, FALSE>>]
      Written(st, c) ==
        CASE st[1] /\ ~st[2] /\ c = "\n" -> <<BS, "n">>
          [] st[1] /\ ~st[2] /\ c = "\r" -> <<BS, "r">>
          [] OTHER -> <<c>>
  IN  ConcatRange([i \in 1..Len(text) |-> Written(Before(i), text[i])],
                  1, Len(text))

\* fix_missing_commas_in_json: re.sub of the pattern
\*   ([\]"|\d|\})\s+(?=[\"]|\[|\{)
\* by '\1, '.  The first bracket expression runs up to the ] of [\"]: it
\* holds ] " | \d } ) \s + ( ? = [ and the group is that class, or [,
\* or {.  Every such character is followed by a comma and a space.
fix_missing_commas_in_json(text) ==
  LET Class == {"]", DQ, "|", "}", ")", "+", "(", "?", "=", "["}
                 \cup Digits \cup WS
      Matched(c) == c \in Class \/ c = "[" \/ c = "{"
  IN  ConcatRange([i \in 1..Len(text) |->
                    IF Matched(text[i]) THEN <<text[i], ",", " ">>
                    ELSE <<text[i]>>],
                  1, Len(text))

\* fix_omitted_elements_in_json: two re.sub passes.  The first deletes
\* every match of "[^"]+"\s*:\s*, : a quote, one or more symbols up to
\* the next quote, a colon and a comma with optional whitespace around
\* the colon.  Matches are taken from the left and do not overlap: a
\* match can hold the start of only one other, at its second quote, so
\* of a run of quotes that each start a match every other one is taken.
\* The second pass replaces a comma, optional whitespace and } or ] by
\* the bracket.
fix_omitted_elements_in_json(text) ==
  LET Quotes(s) == {i \in 1..Len(s) : s[i] = DQ}
      Colon(s, j) == SkipSet(s, j + 1, WS)
      Comma(s, j) == SkipSet(s, Colon(s, j) + 1, WS)
      Closing(s, i) == First({j \in Quotes(s) : j > i})
      \* the last position of the match that starts at quote i, or 0
      MatchEnd(s, i) ==
        IF Closing(s, i) > i + 1
           /\ Colon(s, Closing(s, i)) <= Len(s)
           /\ s[Colon(s, Closing(s, i))] = ":"
           /\ Comma(s, Closing(s, i)) <= Len(s)
           /\ s[Comma(s, Closing(s, i))] = ","
        THEN Comma(s, Closing(s, i)) ELSE 0
      RunBefore(s, i) ==
        {q \in Quotes(s) :
           q < i /\ \A r \in Quotes(s) : (q <= r /\ r < i) => MatchEnd(s, r) > 0}
      Taken(s, i) ==
        s[i] = DQ /\ MatchEnd(s, i) > 0 /\ Cardinality(RunBefore(s, i)) % 2 = 0
      Deleted(s, k) ==
        \E i \in Quotes(s) : i <= k /\ Taken(s, i) /\ k <= MatchEnd(s, i)
      Omitted(s) ==
        ConcatRange([k \in 1..Len(s) |->
                      IF Deleted(s, k) THEN <<>> ELSE <<s[k]>>], 1, Len(s))
      \* symbol k is the comma of a match of the second pattern, or
      \* whitespace between that comma and the bracket
      Trailing(s, k) ==
        /\ s[k] = "," \/ s[k] \in WS
        /\ SkipBackSet(s, k, WS) >= 1
        /\ s[SkipBackSet(s, k, WS)] = ","
        /\ SkipSet(s, k + 1, WS) <= Len(s)
        /\ s[SkipSet(s, k + 1, WS)] \in {"}", "]"}
      Closed(s) ==
        ConcatRange([k \in 1..Len(s) |->
                      IF Trailing(s, k) THEN <<>> ELSE <<s[k]>>], 1, Len(s))
  IN  Closed(Omitted(text))

(***************************************************************************)
(* Parsed documents.  A value is a tuple whose first element is its kind: *)
(* <<"str", symbols>>, <<"num", n>>, <<"bool", b>>, <<"null">>,            *)
(* <<"undef">>, <<"lit", word>> (NaN, Infinity), <<"list", values>> and    *)
(* <<"obj", f>> with f a function from keys (themselves values) to values. *)
(***************************************************************************)
StrV(s) == <<"str", s>>
NumV(n) == <<"num", n>>
BoolV(b) == <<"bool", b>>
NullV == <<"null">>
UndefV == <<"undef">>
ListV(l) == <<"list", l>>
ObjV(f) == <<"obj", f>>
EmptyMap == [k \in {} |-> k]

Kind(v) == v[1]
IsObj(v) == Kind(v) = "obj"
Fields(v) == DOMAIN v[2]
\* dict key of a one-word field name
Key(name) == StrV(<<name>>)
Has(v, name) == IsObj(v) /\ Key(name) \in Fields(v)
Get(v, name) == v[2][Key(name)]
\* dict[key] = value
Put(f, k, x) == (k :> x) @@ f

(***************************************************************************)
(* json.loads (strict) and demjson3.decode (lenient, its default          *)
(* non-strict mode) as one recursive-descent parser with a lenient flag.  *)
(* Lenient accepts in addition: trailing commas, single-quoted strings,   *)
(* identifier and number keys, raw control characters and unnecessary     *)
(* escapes inside strings, omitted array elements, undefined.  Numbers    *)
(* are unsigned integers: the texts hold no sign, fraction or exponent,   *)
(* no leading zero and no \u escape.                                       *)
(***************************************************************************)
ParseFail == [ok |-> FALSE, val |-> NullV, pos |-> 0]
ParseOk(v, p) == [ok |-> TRUE, val |-> v, pos |-> p]

DigitVal(d) ==
  CASE d = "0" -> 0 [] d = "1" -> 1 [] d = "2" -> 2 [] d = "3" -> 3
    [] d = "4" -> 4 [] d = "5" -> 5 [] d = "6" -> 6 [] d = "7" -> 7
    [] d = "8" -> 8 [] d = "9" -> 9

RECURSIVE ParseDigits(_, _, _)
ParseDigits(s, i, acc) ==
  IF i <= Len(s) /\ s[i] \in Digits
  THEN ParseDigits(s, i + 1, 10 * acc + DigitVal(s[i]))
  ELSE ParseOk(NumV(acc), i)

\* s[i] is a digit
ParseNumber(s, i) ==
  IF s[i] = "0" THEN ParseOk(NumV(0), i + 1) ELSE ParseDigits(s, i, 0)

\* The character a backslash escape stands for.
Unescape(e) ==
  CASE e = "n" -> "\n" [] e = "t" -> "\t" [] e = "r" -> "\r"
    [] e = "b" -> "BACKSPACE" [] e = "f" -> "FORMFEED" [] OTHER -> e

StrictEscapes == {DQ, BS, "/", "b", "f", "n", "r", "t"}

RECURSIVE ParseStringBody(_, _, _, _, _)
\* i is the position after the opening quote q.
ParseStringBody(s, i, q, lenient, acc) ==
  CASE i > Len(s) -> ParseFail
    [] s[i] = q -> ParseOk(StrV(acc), i + 1)
    [] s[i] = BS /\ (i + 1 > Len(s) \/ s[i + 1] = "u") -> ParseFail
    [] s[i] = BS /\ (s[i + 1] \in StrictEscapes \/ lenient) ->
         ParseStringBody(s, i + 2, q, lenient, Append(acc, Unescape(s[i + 1])))
    [] s[i] = BS -> ParseFail
    [] s[i] \in ControlChars /\ ~lenient -> ParseFail
    [] OTHER -> ParseStringBody(s, i + 1, q, lenient, Append(acc, s[i]))

\* An identifier key of the lenient parser: a word and the words and
\* digits that follow it.
ParseIdentifier(s, i) ==
  LET e == SkipSet(s, i, Words \cup Digits)
  IN  ParseOk(StrV(Slice(s, i, e - 1)), e)

ParseKey(s, i, lenient) ==
  IF s[i] = DQ THEN ParseStringBody(s, i + 1, DQ, lenient, <<>>)
  ELSE IF ~lenient THEN ParseFail
  ELSE IF s[i] = SQ THEN ParseStringBody(s, i + 1, SQ, lenient, <<>>)
  ELSE IF s[i] \in Words THEN ParseIdentifier(s, i)
  ELSE IF s[i] \in Digits THEN ParseNumber(s, i)
  ELSE ParseFail

ParseWord(s, i, lenient) ==
  CASE s[i] = "true"  -> ParseOk(BoolV(TRUE), i + 1)
    [] s[i] = "false" -> ParseOk(BoolV(FALSE), i + 1)
    [] s[i] = "null"  -> ParseOk(NullV, i + 1)
    [] s[i] \in {"NaN", "Infinity"} -> ParseOk(<<"lit", s[i]>>, i + 1)
    [] s[i] = "undefined" /\ lenient -> ParseOk(UndefV, i + 1)
    [] OTHER -> ParseFail

RECURSIVE ParseValue(_, _, _)
RECURSIVE ParseLoop(_, _, _, _)

\* The state of the loop over a container opened at position i: where the
\* next turn starts, the members read so far, whether the container may
\* close here, whether there is more to read and, if not, whether the
\* container was closed.
Opened(s, i, acc) ==
  [pos |-> SkipSet(s, i + 1, WS), acc |-> acc, mayClose |-> TRUE,
   more |-> TRUE, ok |-> FALSE]

\* i is the position of the value's first symbol (whitespace skipped).
ParseValue(s, i, lenient) ==
  CASE i > Len(s) -> ParseFail
    [] s[i] = "{" -> ParseLoop(s, lenient, FALSE, Opened(s, i, EmptyMap))
    [] s[i] = "[" -> ParseLoop(s, lenient, TRUE, Opened(s, i, <<>>))
    [] s[i] = DQ -> ParseStringBody(s, i + 1, DQ, lenient, <<>>)
    [] s[i] = SQ /\ lenient -> ParseStringBody(s, i + 1, SQ, lenient, <<>>)
    [] s[i] \in Digits -> ParseNumber(s, i)
    [] s[i] \in Words -> ParseWord(s, i, lenient)
    [] OTHER -> ParseFail

\* One turn inside an object, after "{" or after a comma: a closing brace
\* (when mayClose) or a member: the key k, a colon, the value v, then a
\* comma or the brace.
ParseObjectRest(s, lenient, st) ==
  LET Stop(ok, pos, acc) ==
        [st EXCEPT !.more = FALSE, !.ok = ok, !.pos = pos, !.acc = acc]
      Member(k, v) ==
        IF v.ok
        THEN CASE SkipSet(s, v.pos, WS) > Len(s) -> Stop(FALSE, 0, st.acc)
               [] s[SkipSet(s, v.pos, WS)] = "," ->
                    [st EXCEPT
                       !.pos = SkipSet(s, SkipSet(s, v.pos, WS) + 1, WS),
                       !.acc = Put(st.acc, k.val, v.val),
                       !.mayClose = lenient]
               [] s[SkipSet(s, v.pos, WS)] = "}" ->
                    Stop(TRUE, SkipSet(s, v.pos, WS) + 1,
                         Put(st.acc, k.val, v.val))
               [] OTHER -> Stop(FALSE, 0, st.acc)
        ELSE Stop(FALSE, 0, st.acc)
      Keyed(k) ==
        CASE ~k.ok \/ SkipSet(s, k.pos, WS) > Len(s) -> Stop(FALSE, 0, st.acc)
          [] s[SkipSet(s, k.pos, WS)] # ":" -> Stop(FALSE, 0, st.acc)
          [] OTHER ->
               Member(k, ParseValue(s, SkipSet(s, SkipSet(s, k.pos, WS) + 1,
                                               WS), lenient))
  IN  CASE st.pos > Len(s) -> Stop(FALSE, 0, st.acc)
        [] s[st.pos] = "}" -> Stop(st.mayClose, st.pos + 1, st.acc)
        [] OTHER -> Keyed(ParseKey(s, st.pos, lenient))

\* One turn inside an array, after "[" or after a comma: a closing bracket
\* (when mayClose), an omitted element, or an element v, then a comma or
\* the bracket.
ParseArrayRest(s, lenient, st) ==
  LET Stop(ok, pos, acc) ==
        [st EXCEPT !.more = FALSE, !.ok = ok, !.pos = pos, !.acc = acc]
      Element(v) ==
        IF v.ok
        THEN CASE SkipSet(s, v.pos, WS) > Len(s) -> Stop(FALSE, 0, st.acc)
               [] s[SkipSet(s, v.pos, WS)] = "," ->
                    [st EXCEPT
                       !.pos = SkipSet(s, SkipSet(s, v.pos, WS) + 1, WS),
                       !.acc = Append(st.acc, v.val),
                       !.mayClose = lenient]
               [] s[SkipSet(s, v.pos, WS)] = "]" ->
                    Stop(TRUE, SkipSet(s, v.pos, WS) + 1, Append(st.acc, v.val))
               [] OTHER -> Stop(FALSE, 0, st.acc)
        ELSE Stop(FALSE, 0, st.acc)
  IN  CASE st.pos > Len(s) -> Stop(FALSE, 0, st.acc)
        [] s[st.pos] = "]" -> Stop(st.mayClose, st.pos + 1, st.acc)
        [] s[st.pos] = "," /\ lenient ->
             [st EXCEPT !.pos = SkipSet(s, st.pos + 1, WS),
                        !.acc = Append(st.acc, UndefV),
                        !.mayClose = TRUE]
        [] OTHER -> Element(ParseValue(s, st.pos, lenient))

\* The loop over the members of an object or the elements of an array:
\* turn after turn until the container is closed or the parse has failed.
ParseLoop(s, lenient, array, st) ==
  IF st.more
  THEN ParseLoop(s, lenient, array,
                 IF array THEN ParseArrayRest(s, lenient, st)
                 ELSE ParseObjectRest(s, lenient, st))
  ELSE IF st.ok
  THEN ParseOk(IF array THEN ListV(st.acc) ELSE ObjV(st.acc), st.pos)
  ELSE ParseFail

\* A whole text: whitespace, one value, whitespace.
ParseText(s, lenient) ==
  LET Whole(r) ==
        IF r.ok
        THEN IF SkipSet(s, r.pos, WS) > Len(s) THEN r ELSE ParseFail
        ELSE ParseFail
  IN  Whole(ParseValue(s, SkipSet(s, 1, WS), lenient))

json_loads(s) == ParseText(s, FALSE)
demjson3_decode(s) == ParseText(s, TRUE)

(***************************************************************************)
(* The pydantic (v2) schemas of mcp_server/mcp/agents/ai_models.py and    *)
(* BaseModel.model_validate in its default lax mode.  A model's fields    *)
(* are <<name, type, has default>>; a field without default is required,  *)
(* also when its type is Optional.                                         *)
(***************************************************************************)
TopicModel ==
  << <<"name", "str", FALSE>>,
     <<"platform", "str", FALSE>>,
     <<"technology", "optstr", FALSE>> >>

CodeTestModel ==
  << <<"snippet", "str", FALSE>>,
     <<"options", "strlist", FALSE>>,
     <<"answer", "str", FALSE>> >>

AnswerLevelModel ==
  << <<"name", "str", FALSE>>,
     <<"answer", "str", FALSE>>,
     <<"tests", "tests", FALSE>>,
     <<"evaluationCriteria", "str", FALSE>> >>

AnswerLevels ==
  << <<"beginner", "AnswerLevelModel", FALSE>>,
     <<"intermediate", "AnswerLevelModel", FALSE>>,
     <<"advanced", "AnswerLevelModel", FALSE>> >>

QuestionModel ==
  << <<"topic", "TopicModel", FALSE>>,
     <<"text", "str", FALSE>>,
     <<"tags", "strlist", FALSE>>,
     <<"answerLevels", "AnswerLevels", FALSE>> >>

\* tags has default_factory=list
QuizModel ==
  << <<"topic", "TopicModel", FALSE>>,
     <<"question", "str", FALSE>>,
     <<"tags", "strlist", TRUE>> >>

BooleanFields ==
  << "is_text_clear", "is_question_correspond", "is_question_not_trivial",
     "do_answer_levels_exist", "are_answer_levels_valid",
     "has_evaluation_criteria", "are_answer_levels_different",
     "do_tests_exist", "do_tags_exist", "do_test_options_exist",
     "is_question_text_different_from_existing_questions",
     "are_test_options_numbered", "does_answer_contain_option_number",
     "are_code_blocks_marked_if_they_exist", "does_snippet_have_question",
     "does_snippet_have_code" >>

ScoreFields ==
  << "clarity_score", "relevance_score", "difficulty_score",
     "structure_score", "code_quality_score", "quality_score" >>

FeedbackFields ==
  << "clarity_feedback", "relevance_feedback", "difficulty_feedback",
     "structure_feedback", "code_quality_feedback", "comments" >>

QuestionValidation ==
  [i \in 1..Len(BooleanFields) |-> <<BooleanFields[i], "bool", FALSE>>]
  \o [i \in 1..Len(ScoreFields) |-> <<ScoreFields[i], "int", FALSE>>]
  \o [i \in 1..Len(FeedbackFields) |-> <<FeedbackFields[i], "str", FALSE>>]
  \o << <<"recommendations", "strlist", FALSE>>,
        <<"passed", "bool", FALSE>> >>

\* The legacy schema of models/openai_model.py.
LegacyBooleanFields ==
  << "is_text_clear", "is_question_correspond", "is_question_not_trivial",
     "do_answer_levels_exist", "are_answer_levels_valid",
     "are_answer_levels_different", "do_tests_exist", "do_tags_exist",
     "do_test_options_exist",
     "is_question_text_different_from_existing_questions",
     "are_test_options_numbered", "does_answer_contain_option_number",
     "are_code_blocks_marked", "does_snippet_have_question",
     "does_snippet_have_code" >>

LegacyQuestionValidation ==
  [i \in 1..Len(LegacyBooleanFields) |-> <<LegacyBooleanFields[i], "bool", FALSE>>]
  \o << <<"quality_score", "int", FALSE>>,
        <<"validation_comments", "str", FALSE>> >>

ModelNames ==
  {"TopicModel", "CodeTestModel", "AnswerLevelModel", "AnswerLevels",
   "QuestionModel", "QuizModel", "QuestionValidation",
   "LegacyQuestionValidation"}

ModelFields(type) ==
  CASE type = "TopicModel" -> TopicModel
    [] type = "CodeTestModel" -> CodeTestModel
    [] type = "AnswerLevelModel" -> AnswerLevelModel
    [] type = "AnswerLevels" -> AnswerLevels
    [] type = "QuestionModel" -> QuestionModel
    [] type = "QuizModel" -> QuizModel
    [] type = "QuestionValidation" -> QuestionValidation
    [] type = "LegacyQuestionValidation" -> LegacyQuestionValidation

\* The default value of a field that has one (default_factory=list).
FieldDefault(type) == ListV(<<>>)

Invalid == [ok |-> FALSE, val |-> NullV]
Valid(v) == [ok |-> TRUE, val |-> v]

RECURSIVE AllDigits(_)
AllDigits(s) == s = <<>> \/ (Head(s) \in Digits /\ AllDigits(Tail(s)))

\* bool field, lax mode: a bool, the integers 0 and 1, a boolean string
\* (of those pydantic reads as booleans, the ones among the words in use)
CoerceBool(v) ==
  CASE Kind(v) = "bool" -> Valid(v)
    [] Kind(v) = "num" /\ v[2] \in {0, 1} -> Valid(BoolV(v[2] = 1))
    [] Kind(v) = "str" /\ v[2] \in {<<"true">>, <<"t">>, <<"y">>, <<"1">>}
         -> Valid(BoolV(TRUE))
    [] Kind(v) = "str" /\ v[2] \in {<<"false">>, <<"f">>, <<"n">>, <<"0">>}
         -> Valid(BoolV(FALSE))
    [] OTHER -> Invalid

\* int field, lax mode: an int, a bool, a string of digits
CoerceInt(v) ==
  CASE Kind(v) = "num" -> Valid(v)
    [] Kind(v) = "bool" -> Valid(NumV(IF v[2] THEN 1 ELSE 0))
    [] Kind(v) = "str" /\ v[2] # <<>> /\ AllDigits(v[2])
         -> Valid(ParseDigits(v[2], 1, 0).val)
    [] OTHER -> Invalid

\* str field: only a str
CoerceStr(v) == IF Kind(v) = "str" THEN Valid(v) ELSE Invalid

\* Optional[str]
CoerceOptStr(v) == IF Kind(v) \in {"str", "null"} THEN Valid(v) ELSE Invalid

\* List[str]
CoerceStrList(v) ==
  IF Kind(v) = "list" /\ \A i \in 1..Len(v[2]) : Kind(v[2][i]) = "str"
  THEN Valid(v) ELSE Invalid

RECURSIVE Coerce(_, _)

\* The fields of a model over the dict v: a field that is present is
\* coerced to its type, one that is absent takes its default or, having
\* none, fails.  The model is built when every field is valid.
ValidateFields(fields, v) ==
  LET Field(i) ==
        IF Has(v, fields[i][1])
        THEN Coerce(fields[i][2], Get(v, fields[i][1]))
        ELSE IF fields[i][3] THEN Valid(FieldDefault(fields[i][2]))
        ELSE Invalid
  IN  IF \A i \in 1..Len(fields) : Field(i).ok
      THEN Valid(ObjV([k \in {Key(fields[i][1]) : i \in 1..Len(fields)} |->
             Field(CHOOSE i \in 1..Len(fields) : Key(fields[i][1]) = k).val]))
      ELSE Invalid

\* AnswerLevelModel.validate_name (field_validator)
validate_name(m) ==
  IF Get(m, "name") \in
       {StrV(<<"Beginner">>), StrV(<<"Intermediate">>), StrV(<<"Advanced">>)}
  THEN Valid(m) ELSE Invalid

\* Mutation: the flag is kept as sent.
validate_passed_kept(m) == Valid(m)

\* QuestionValidation.validate_passed: quality_score is declared before
\* passed, so it is among the validated values.
validate_passed(m) ==
  Valid(ObjV(Put(m[2], Key("passed"), BoolV(Get(m, "quality_score")[2] >= 7))))

\* A list of CodeTestModel
CoerceTests(v) ==
  IF Kind(v) # "list" THEN Invalid
  ELSE IF \A i \in 1..Len(v[2]) : Coerce("CodeTestModel", v[2][i]).ok
  THEN Valid(ListV([i \in 1..Len(v[2]) |->
                      Coerce("CodeTestModel", v[2][i]).val]))
  ELSE Invalid

\* model_validate of a nested or top-level model: the input must be a
\* dict, extra keys are ignored.
ValidateModel(type, v) ==
  LET Validators(r) ==
        CASE ~r.ok -> Invalid
          [] type = "AnswerLevelModel" -> validate_name(r.val)
          [] type = "QuestionValidation" -> validate_passed(r.val)
          [] OTHER -> r
  IN  IF IsObj(v) THEN Validators(ValidateFields(ModelFields(type), v))
      ELSE Invalid

Coerce(type, v) ==
  CASE type = "str" -> CoerceStr(v)
    [] type = "optstr" -> CoerceOptStr(v)
    [] type = "int" -> CoerceInt(v)
    [] type = "bool" -> CoerceBool(v)
    [] type = "strlist" -> CoerceStrList(v)
    [] type = "tests" -> CoerceTests(v)
    [] OTHER -> ValidateModel(type, v)

model_validate(type, v) == ValidateModel(type, v)

(***************************************************************************)
(* What a response parser hands back.  tried lists the decode attempts in *)
(* the order made: the strategy, the text it was made on, the sanitizers  *)
(* that text went through, and whether it produced a document.            *)
(***************************************************************************)
Attempt(strategy, text, sanitizers, r) ==
  [strategy |-> strategy, text |-> text, sanitizers |-> sanitizers,
   ok |-> r.ok]

\* An exception leaving the parser: its class and the raise site.
Raise(exc, site, parsed, data, tried) ==
  [status |-> "error", value |-> NullV, exc |-> exc, site |-> site,
   parsed |-> parsed, data |-> data, tried |-> tried]

\* A typed object returned.
Return(value, data, tried) ==
  [status |-> "ok", value |-> value, exc |-> "", site |-> "",
   parsed |-> TRUE, data |-> data, tried |-> tried]

\* The schema class a target kind names.
SchemaOf(kind) ==
  CASE kind = "question" -> "QuestionModel"
    [] kind = "quiz" -> "QuizModel"
    [] kind = "validation" -> "QuestionValidation"

(***************************************************************************)
(* OpenAIAgent._parse_openai_response                                      *)
(***************************************************************************)
parse_openai_response(response_text, kind) ==
  LET start == Find(response_text, "{")
      end == RFind(response_text, "}")
      Failed(parsed, data, tried) ==
        Raise("ValueError", "Could not parse JSON from OpenAI response",
              parsed, data, tried)
      Loaded(json_str, strict) ==
        LET tried == << Attempt("strict", json_str, <<>>, strict) >>
            Validated(typed) ==
              IF ~typed.ok THEN Failed(TRUE, strict.val, tried)
              ELSE Return(typed.val, strict.val, tried)
        IN  IF ~strict.ok THEN Failed(FALSE, NullV, tried)
            ELSE Validated(model_validate(SchemaOf(kind), strict.val))
      Sliced(json_str) == Loaded(json_str, json_loads(json_str))
  IN  IF start = 0 \/ end = 0 \/ start > end
      THEN Failed(FALSE, NullV, <<>>)
      ELSE Sliced(Slice(response_text, start, end))

(***************************************************************************)
(* GeminiAgent._parse_gemini_response (gemini_agent.py)                    *)
(***************************************************************************)
\* re.search(r'(\{[\s\S]*\})', text): the first "{" to the last "}".
GeminiSearch(text) ==
  LET start == Find(text, "{")
      end == RFind(text, "}")
  IN  IF start # 0 /\ end > start
      THEN [found |-> TRUE, group |-> Slice(text, start, end)]
      ELSE [found |-> FALSE, group |-> <<>>]

\* Mutation: the decoded document is returned as it is.
GeminiValidateSkipped(data, kind, tried) == Return(data, data, tried)

\* The schema validation that ends the parser: the pydantic
\* ValidationError is not wrapped.
GeminiValidate(data, kind, tried) ==
  LET Validated(typed) ==
        IF ~typed.ok
        THEN Raise("ValidationError", "model_validate", TRUE, data, tried)
        ELSE Return(typed.val, data, tried)
  IN  IF kind \notin {"question", "quiz", "validation"}
      THEN Raise("ValueError", "Unknown schema type", TRUE, data, tried)
      ELSE Validated(model_validate(SchemaOf(kind), data))

\* The except branch of the raw parse: regex extraction, strict, lenient,
\* hard cut.  A document obtained here meets the two statements that
\* close the branch: a log line reading the unbound name e, then a raise.
GeminiFallback(response_text, tried0) ==
  LET Unbound(data, tried) ==
        Raise("NameError", "name 'e' is not defined", TRUE, data, tried)
      Extracted(json_str) ==
        LET last_brace == RFind(json_str, "}")
            cut_json_str == Slice(json_str, 1, last_brace)
            AfterStrict(strict) ==
              LET t1 == Append(tried0,
                               Attempt("extract_strict", json_str, <<>>, strict))
                  AfterLenient(lenient) ==
                    LET t2 == Append(t1, Attempt("extract_lenient", json_str,
                                                 <<>>, lenient))
                        AfterCut(cut) ==
                          LET t3 == Append(t2, Attempt("hardcut", cut_json_str,
                                                       <<>>, cut))
                          IN  IF cut.ok THEN Unbound(cut.val, t3)
                              ELSE Raise("ValueError",
                                         "Could not parse JSON from Gemini response after hard cut",
                                         FALSE, NullV, t3)
                    IN  IF lenient.ok THEN Unbound(lenient.val, t2)
                        ELSE IF last_brace = 0
                        THEN Raise("ValueError",
                                   "Could not parse JSON from Gemini response",
                                   FALSE, NullV, t2)
                        ELSE AfterCut(demjson3_decode(cut_json_str))
              IN  IF strict.ok THEN Unbound(strict.val, t1)
                  ELSE AfterLenient(demjson3_decode(json_str))
        IN  AfterStrict(json_loads(json_str))
      Searched(m) ==
        IF ~m.found
        THEN Raise("ValueError", "Could not find JSON object in Gemini response",
                   FALSE, NullV, tried0)
        ELSE Extracted(m.group)
  IN  Searched(GeminiSearch(response_text))

parse_gemini_response(response_text, kind) ==
  LET start == Find(response_text, "{")
      end == RFind(response_text, "}")
      Sliced(json_str) ==
        LET AfterStrict(strict) ==
              LET t1 == << Attempt("strict", json_str, <<>>, strict) >>
                  AfterLenient(lenient) ==
                    LET t2 == Append(t1,
                                     Attempt("lenient", json_str, <<>>, lenient))
                    IN  IF lenient.ok THEN GeminiValidate(lenient.val, kind, t2)
                        ELSE GeminiFallback(response_text, t2)
              IN  IF strict.ok THEN GeminiValidate(strict.val, kind, t1)
                  ELSE AfterLenient(demjson3_decode(json_str))
        IN  AfterStrict(json_loads(json_str))
  IN  IF start = 0 \/ end = 0 \/ start > end
      THEN GeminiFallback(response_text, <<>>)
      ELSE Sliced(Slice(response_text, start, end))

(***************************************************************************)
(* ClaudeAgent._parse_claude_response                                      *)
(***************************************************************************)
\* One alternative of the fallback pattern at position i:
\*   BQ{3}json\s*([\s\S]*?)\s*BQ{3} | BQ{3}\s*([\s\S]*?)\s*BQ{3} | (\{[\s\S]*\})
\* open is the length of the opening (4 with the json tag, 3 without).
FencedGroup(s, i, open) ==
  LET p == SkipSet(s, i + open, WS)
      q == NextFence(s, p)
  IN  RStrip(Slice(s, p, q - 1))

\* re.search: the leftmost position where an alternative matches, the
\* alternatives tried in order.  group is the text of the one group that
\* took part in the match.
ClaudeSearch(s) ==
  LET end == RFind(s, "}")
      Tagged(i) == FenceAt(s, i) /\ i + 3 <= Len(s) /\ s[i + 3] = "json"
                   /\ NextFence(s, i + 4) # 0
      Plain(i) == FenceAt(s, i) /\ NextFence(s, i + 3) # 0
      Braces(i) == s[i] = "{" /\ end > i
      i == First({j \in 1..Len(s) : Tagged(j) \/ Plain(j) \/ Braces(j)})
  IN  IF i = 0 THEN [found |-> FALSE, alt |-> 0, group |-> <<>>]
      ELSE IF Tagged(i)
      THEN [found |-> TRUE, alt |-> 1, group |-> FencedGroup(s, i, 4)]
      ELSE IF Plain(i)
      THEN [found |-> TRUE, alt |-> 2, group |-> FencedGroup(s, i, 3)]
      ELSE [found |-> TRUE, alt |-> 3, group |-> Slice(s, i, end)]

\* json_str[start:end] with start = json_str.find('{') (-1 counts from
\* the end) and end = json_str.rfind('}') + 1.
ClaudeCut(json_str) ==
  LET start == Find(json_str, "{")
      end == RFind(json_str, "}")
  IN  Slice(json_str, IF start = 0 THEN Len(json_str) ELSE start, end)

ClaudeSanitizers ==
  <<"remove_triple_backticks_from_outer_markdown",
    "fix_unterminated_strings_in_json", "escape_json_strings">>

\* The conversion to the expected schema: a failure is re-raised as
\* ValueError.
ClaudeValidate(data, kind, tried) ==
  LET Validated(typed) ==
        IF ~typed.ok
        THEN Raise("ValueError", "Claude response does not match expected schema",
                   TRUE, data, tried)
        ELSE Return(typed.val, data, tried)
  IN  Validated(model_validate(SchemaOf(kind), data))

\* The except json.JSONDecodeError branch.  The first handler of the
\* lenient attempt re-raises, so the hard cut in the second handler of the
\* same exception class is never entered.
ClaudeFallback(response_text, kind, tried0) ==
  LET Cleaned(cleaned_json_str) ==
        LET AfterStrict(strict) ==
              LET t1 == Append(tried0, Attempt("extract_strict",
                                               cleaned_json_str, <<>>, strict))
                  AfterLenient(lenient) ==
                    LET t2 == Append(t1, Attempt("extract_lenient",
                                                 cleaned_json_str, <<>>, lenient))
                    IN  IF lenient.ok THEN ClaudeValidate(lenient.val, kind, t2)
                        ELSE Raise("JSONDecodeError", "demjson3.decode",
                                   FALSE, NullV, t2)
              IN  IF strict.ok THEN ClaudeValidate(strict.val, kind, t1)
                  ELSE AfterLenient(demjson3_decode(cleaned_json_str))
        IN  AfterStrict(json_loads(cleaned_json_str))
      Searched(m) ==
        IF ~m.found
        THEN Raise("ValueError", "Could not find JSON object in Claude response",
                   FALSE, NullV, tried0)
        ELSE IF m.group = <<>>
        THEN Raise("AttributeError", "'NoneType' object has no attribute 'find'",
                   FALSE, NullV, tried0)
        ELSE Cleaned(ClaudeCut(m.group))
  IN  Searched(ClaudeSearch(response_text))

parse_claude_response(response_text, kind) ==
  LET Sanitized(cleaned_response) ==
        LET AfterStrict(strict) ==
              LET t1 == << Attempt("strict", cleaned_response,
                                   ClaudeSanitizers, strict) >>
              IN  IF strict.ok THEN ClaudeValidate(strict.val, kind, t1)
                  ELSE ClaudeFallback(response_text, kind, t1)
        IN  AfterStrict(json_loads(cleaned_response))
  IN  Sanitized(escape_json_strings(
        fix_unterminated_strings_in_json(
          remove_triple_backticks_from_outer_markdown(response_text))))

(***************************************************************************)
(* The legacy text path: utils/json_utils.py, called by                    *)
(* models/gemini_model.py and models/deepseek_model.py.  These functions   *)
(* return dicts and do not raise.                                          *)
(***************************************************************************)
ErrorDoc(message) == ObjV(Put(EmptyMap, Key("error"), StrV(message)))

\* {"error": "Bad JSON"}
BadJSON == ErrorDoc(<<"Bad", " ", "JSON">>)

fix_malformed_json(response_text) ==
  LET Retry(fixed_text) ==
        LET AfterFirst(first) ==
              LET t1 == << Attempt("strict", response_text, <<>>, first) >>
                  AfterSecond(second) ==
                    LET t2 == Append(t1, Attempt("strict", fixed_text,
                                                 <<"strip">>, second))
                    IN  IF second.ok THEN Return(second.val, second.val, t2)
                        ELSE Return(BadJSON, NullV, t2)
              IN  IF first.ok THEN Return(first.val, first.val, t1)
                  ELSE AfterSecond(json_loads(fixed_text))
        IN  AfterFirst(json_loads(response_text))
  IN  Retry(StripSet(Strip(response_text), {BQ}))

\* get_gemini_response after the provider call: the text member is
\* stripped, the source member added; any exception (a decoded value that
\* is no dict, a text member that is no str) becomes {"error": str(e)}.
gemini_model_response(response_text) ==
  LET source == ObjV(Put(Put(EmptyMap, Key("ai"), StrV(<<"googleAI">>)),
                         Key("model"), StrV(<<"gemini">>)))
      Stripped(ai_response) ==
        IF Has(ai_response, "text")
        THEN Put(ai_response[2], Key("text"),
                 StrV(Strip(Get(ai_response, "text")[2])))
        ELSE ai_response[2]
      Fixed(r) ==
        IF ~IsObj(r.value)
        THEN Return(ErrorDoc(<<"TypeError">>), r.data, r.tried)
        ELSE IF Has(r.value, "text") /\ Kind(Get(r.value, "text")) # "str"
        THEN Return(ErrorDoc(<<"AttributeError">>), r.data, r.tried)
        ELSE Return(ObjV(Put(Stripped(r.value), Key("source"), source)),
                    r.data, r.tried)
  IN  Fixed(fix_malformed_json(response_text))

\* get_deepseek_response after the provider call: a leading fence with
\* the json tag (7 characters) and a trailing fence are cut off.
deepseek_model_response(raw_content) ==
  LET Closing(a) ==
        IF FenceAt(a, Len(a) - 2) THEN Slice(a, 1, Len(a) - 3) ELSE a
  IN  fix_malformed_json(
        Closing(IF FenceAt(raw_content, 1) /\ Len(raw_content) >= 4
                   /\ raw_content[4] = "json"
                THEN Slice(raw_content, 5, Len(raw_content))
                ELSE raw_content))

(***************************************************************************)
(* Function-call post-processing of google_agent.py.  The arguments of    *)
(* the call arrive as a dict; request is the question request.            *)
(***************************************************************************)
LevelNames == <<"beginner", "intermediate", "advanced">>

\* level.capitalize()
Capitalize(level) ==
  CASE level = "beginner" -> "Beginner"
    [] level = "intermediate" -> "Intermediate"
    [] level = "advanced" -> "Advanced"

\* Mutation: the stub carries the key the schema declares.
StubLevelCamel(level) ==
  ObjV(Put(Put(Put(Put(EmptyMap,
    Key("name"), StrV(<<Capitalize(level)>>)),
    Key("answer"), StrV(<<>>)),
    Key("tests"), ListV(<<>>)),
    Key("evaluationCriteria"), StrV(<<>>)))

\* The stub put in place of a missing level.
StubLevel(level) ==
  ObjV(Put(Put(Put(Put(EmptyMap,
    Key("name"), StrV(<<Capitalize(level)>>)),
    Key("answer"), StrV(<<>>)),
    Key("tests"), ListV(<<>>)),
    Key("evaluation_criteria"), StrV(<<>>)))

\* A bare-string topic becomes a topic dict from the request.
AutofixTopic(generated_args, request) ==
  IF Has(generated_args, "topic") /\ Kind(Get(generated_args, "topic")) = "str"
  THEN ObjV(Put(generated_args[2], Key("topic"),
         ObjV(Put(Put(Put(EmptyMap,
           Key("name"), Get(generated_args, "topic")),
           Key("platform"), StrV(request.platform)),
           Key("technology"), StrV(request.technology)))))
  ELSE generated_args

RECURSIVE FillLevels(_, _)
\* The loop over the three levels: a level that is missing or no dict is
\* replaced by its stub.
FillLevels(answer_levels, i) ==
  IF i > Len(LevelNames) THEN answer_levels
  ELSE LET level == LevelNames[i]
       IN  IF ~Has(answer_levels, level) \/ ~IsObj(Get(answer_levels, level))
           THEN FillLevels(ObjV(Put(answer_levels[2], Key(level),
                                    StubLevel(level))), i + 1)
           ELSE FillLevels(answer_levels, i + 1)

AutofixAnswerLevels(generated_args) ==
  LET answer_levels ==
        IF Has(generated_args, "answerLevels")
           /\ IsObj(Get(generated_args, "answerLevels"))
        THEN Get(generated_args, "answerLevels")
        ELSE ObjV(EmptyMap)
  IN  ObjV(Put(generated_args[2], Key("answerLevels"),
               FillLevels(answer_levels, 1)))

\* Mutation: the autofixed arguments are returned without validation.
process_generation_unvalidated(generated_args, request) ==
  LET fixed == AutofixAnswerLevels(AutofixTopic(generated_args, request))
  IN  Return(fixed, fixed, <<>>)

\* GeminiAgent._process_generation_response (google_agent.py) from the
\* arguments of the function call on.
process_generation_response(generated_args, request) ==
  LET fixed == AutofixAnswerLevels(AutofixTopic(generated_args, request))
      typed == model_validate("QuestionModel", fixed)
  IN  IF typed.ok THEN Return(typed.val, fixed, <<>>)
      ELSE Raise("ValueError", "Invalid generated question format",
                 TRUE, fixed, <<>>)

\* GeminiAgent._process_validation_response (google_agent.py)
google_process_validation_response(validation_args) ==
  LET typed == model_validate("QuestionValidation", validation_args)
      validation_result == typed.val
      expected_passed == Get(validation_result, "quality_score")[2] >= 7
      adjusted ==
        IF Get(validation_result, "passed") # BoolV(expected_passed)
        THEN ObjV(Put(validation_result[2], Key("passed"),
                      BoolV(expected_passed)))
        ELSE validation_result
  IN  IF typed.ok THEN Return(adjusted, validation_args, <<>>)
      ELSE Raise("ValueError", "Invalid validation format",
                 TRUE, validation_args, <<>>)

(***************************************************************************)
(* Validation post-processing of openai_agent.py.                          *)
(***************************************************************************)
\* OpenAIAgent.validate from the message content on: the whole content is
\* decoded strictly and the model built from it; every failure ends as
\* RuntimeError("Validation error: ...").
openai_validate(content) ==
  LET strict == json_loads(content)
      tried == << Attempt("strict", content, <<>>, strict) >>
      typed == model_validate("QuestionValidation", strict.val)
  IN  IF ~strict.ok
      THEN Raise("RuntimeError", "Validation error", FALSE, NullV, tried)
      ELSE IF ~typed.ok
      THEN Raise("RuntimeError", "Validation error", TRUE, strict.val, tried)
      ELSE Return(typed.val, strict.val, tried)

ScoreMin == 1
ScoreMax == 10
PassMark == 7

\* OpenAIAgent._process_validation_response: message.parsed is the
\* QuestionValidation the client library built from the structured
\* output; the checks on it follow.
openai_process_validation_response(parsed_args) ==
  LET typed == model_validate("QuestionValidation", parsed_args)
      validation == typed.val
      InRange(i) == LET score == Get(validation, ScoreFields[i])[2]
                    IN  ScoreMin <= score /\ score <= ScoreMax
  IN  IF ~typed.ok
      THEN Raise("ValidationError", "parse", TRUE, parsed_args, <<>>)
      ELSE IF \E i \in 1..Len(ScoreFields) : ~InRange(i)
      THEN Raise("ValueError", "Validation processing error",
                 TRUE, parsed_args, <<>>)
      ELSE IF Get(validation, "passed")
                # BoolV(Get(validation, "quality_score")[2] >= PassMark)
      THEN Raise("ValueError", "Validation processing error",
                 TRUE, parsed_args, <<>>)
      ELSE Return(validation, parsed_args, <<>>)

(***************************************************************************)
(* The dummy validation of the legacy models/openai_model.py.              *)
(***************************************************************************)
DummyScore == 10

\* Every boolean check set to True.
AllTrue(names) ==
  [k \in {Key(names[i]) : i \in 1..Len(names)} |-> BoolV(TRUE)]

\* QuestionValidation.create_dummy_validation: the keyword arguments of
\* cls(...); model_construct is the except branch.
create_dummy_validation ==
  LET kwargs ==
        ObjV(Put(Put(AllTrue(LegacyBooleanFields),
          Key("quality_score"), NumV(DummyScore)),
          Key("validation_comments"), StrV(<<"passed">>)))
      typed == model_validate("LegacyQuestionValidation", kwargs)
  IN  IF typed.ok THEN typed.val ELSE kwargs

\* The caller (generate with validation switched off): the comments and
\* the score of the dummy are overwritten by plain assignment.
skipped_validation ==
  LET validation == create_dummy_validation
  IN  Return(ObjV(Put(Put(validation[2],
               Key("validation_comments"), StrV(<<"skipped">>)),
               Key("quality_score"), NumV(0))),
             NullV, <<>>)

(***************************************************************************)
(* What the providers send back.  The texts are built as a JSON writer    *)
(* would build them; the variants are the kinds of noise the parsers are  *)
(* written for: fences, prose around the object, truncation, trailing     *)
(* commas, missing members.                                                *)
(***************************************************************************)
\* How many trailing symbols a truncated response may have lost.
MaxCut == 8
\* Scores range over 0..MaxScore.
MaxScore == 11

Quoted(w) == <<DQ>> \o w \o <<DQ>>
Member(k, v) == Quoted(<<k>>) \o <<":", " ">> \o v

RECURSIVE JoinRange(_, _, _)
\* The items lo..hi with ", " between them, by halves.
JoinRange(items, lo, hi) ==
  IF lo > hi THEN <<>>
  ELSE IF lo = hi THEN items[lo]
  ELSE JoinRange(items, lo, (lo + hi) \div 2) \o <<",", " ">>
         \o JoinRange(items, (lo + hi) \div 2 + 1, hi)

Join(items) == JoinRange(items, 1, Len(items))

Object(members) == <<"{">> \o Join(members) \o <<"}">>
Array(items) == <<"[">> \o Join(items) \o <<"]">>

DigitSym(d) ==
  CASE d = 0 -> "0" [] d = 1 -> "1" [] d = 2 -> "2" [] d = 3 -> "3"
    [] d = 4 -> "4" [] d = 5 -> "5" [] d = 6 -> "6" [] d = 7 -> "7"
    [] d = 8 -> "8" [] d = 9 -> "9"

Number(n) ==
  IF n < 10 THEN <<DigitSym(n)>> ELSE <<DigitSym(n \div 10), DigitSym(n % 10)>>

Boolean(b) == IF b THEN <<"true">> ELSE <<"false">>

TopicText ==
  Object(<< Member("name", Quoted(<<"ARC">>)),
            Member("platform", Quoted(<<"iOS">>)),
            Member("technology", Quoted(<<"Swift">>)) >>)

QuestionStr == Quoted(<<"What", " ", "is", " ", "ARC", "?">>)
TagsText == Array(<< Quoted(<<"ARC">>) >>)

QuizMembers ==
  << Member("topic", TopicText), Member("question", QuestionStr),
     Member("tags", TagsText) >>

QuizText == Object(QuizMembers)
\* The question and tags members written after the closing brace.
QuizQuestionAfter ==
  Object(<< QuizMembers[1] >>) \o <<",", " ">> \o QuizMembers[2]
  \o <<",", " ">> \o QuizMembers[3]

\* The quiz text and its variants: a member left out; the tags, or the
\* question and the tags, written after the closing brace; a trailing
\* comma; a bare-string topic; a raw line break inside a string.
QuizTexts ==
  { QuizText,
    Object(<< QuizMembers[1], QuizMembers[2] >>),
    Object(<< QuizMembers[1], QuizMembers[3] >>),
    Object(<< QuizMembers[2], QuizMembers[3] >>),
    Object(<< QuizMembers[1], QuizMembers[2] >>) \o <<",", " ">>
      \o QuizMembers[3],
    QuizQuestionAfter,
    <<"{">> \o Join(QuizMembers) \o <<",", "}">>,
    Object(<< Member("topic", Quoted(<<"ARC">>)), QuizMembers[2],
              QuizMembers[3] >>),
    Object(<< QuizMembers[1],
              Member("question",
                     Quoted(<<"What", "\n", "is", " ", "ARC", "?">>)),
              QuizMembers[3] >>) }

TestText ==
  Object(<< Member("snippet", Quoted(<<"let", " ", "x">>)),
            Member("options", Array(<< Quoted(<<"1">>), Quoted(<<"2">>),
                                       Quoted(<<"3">>) >>)),
            Member("answer", Quoted(<<"1">>)) >>)

LevelText(name, tests) ==
  Object(<< Member("name", Quoted(<<name>>)),
            Member("answer", Quoted(<<"ARC">>)),
            Member("tests", Array(tests)),
            Member("evaluationCriteria", Quoted(<<"ok">>)) >>)

LevelMembers ==
  << Member("beginner", LevelText("Beginner", <<TestText>>)),
     Member("intermediate", LevelText("Intermediate", <<>>)),
     Member("advanced", LevelText("Advanced", <<>>)) >>

QuestionMembers(topic, levels) ==
  << Member("topic", topic), Member("text", QuestionStr),
     Member("tags", TagsText), Member("answerLevels", levels) >>

QuestionText == Object(QuestionMembers(TopicText, Object(LevelMembers)))

\* The question text with level i left out.
QuestionWithout(i) ==
  Object(QuestionMembers(TopicText,
    Object([j \in 1..2 |-> LevelMembers[IF j < i THEN j ELSE j + 1]])))

\* Question texts with one level left out, given as a string, or
\* misnamed; with the levels left out or given as a list; with a
\* bare-string topic; with the text member left out.
QuestionVariants ==
  { QuestionWithout(i) : i \in 1..3 } \cup
  { Object(QuestionMembers(TopicText,
      Object(<< LevelMembers[1], LevelMembers[2],
                Member("advanced", Quoted(<<"x">>)) >>))),
    Object(QuestionMembers(TopicText,
      Object(<< LevelMembers[1], LevelMembers[2],
                Member("advanced", LevelText("Expert", <<>>)) >>))),
    Object(QuestionMembers(TopicText, Object(<<>>))),
    Object(QuestionMembers(TopicText, Array(<<>>))),
    Object(SubSeq(QuestionMembers(TopicText, Object(LevelMembers)), 1, 3)),
    Object(QuestionMembers(Quoted(<<"ARC">>), Object(LevelMembers))),
    Object(QuestionMembers(Quoted(<<"ARC">>),
      Object(<< LevelMembers[1], LevelMembers[2] >>))),
    Object(Tail(QuestionMembers(TopicText, Object(LevelMembers)))) }

QuestionTexts == {QuestionText} \cup QuestionVariants

\* The question text with no level at all, and with a bare-string topic;
\* the quiz text with a bare-string topic (all among the variants above).
QuestionNoLevels == Object(QuestionMembers(TopicText, Object(<<>>)))
BareTopicQuestion ==
  Object(QuestionMembers(Quoted(<<"ARC">>), Object(LevelMembers)))
BareTopicQuiz ==
  Object(<< Member("topic", Quoted(<<"ARC">>)), QuizMembers[2],
            QuizMembers[3] >>)
\* {"a": 1,} and {"a": 1} (both among the small texts)
TrailingCommaObject == <<"{", DQ, "a", DQ, ":", " ", "1", ",", "}">>
PlainObject == <<"{", DQ, "a", DQ, ":", " ", "1", "}">>

ValidationMembers(score, passed) ==
  [i \in 1..Len(BooleanFields) |-> Member(BooleanFields[i], <<"true">>)]
  \o [i \in 1..Len(ScoreFields) |->
        Member(ScoreFields[i],
               IF ScoreFields[i] = "quality_score" THEN Number(score)
               ELSE <<"8">>)]
  \o [i \in 1..Len(FeedbackFields) |-> Member(FeedbackFields[i], Quoted(<<"ok">>))]
  \o << Member("recommendations", Array(<< Quoted(<<"ok">>) >>)),
        Member("passed", passed) >>

ValidationText(score, passed) == Object(ValidationMembers(score, passed))

\* Validation texts over every score and flag; with the flag given as a
\* string or left out; with a score given as a string.
ValidationTexts ==
  { ValidationText(q, Boolean(p)) : q \in 0..MaxScore, p \in BOOLEAN }
  \cup { ValidationText(8, Quoted(<<"false">>)),
         ValidationText(8, Quoted(<<"x">>)),
         Object(SubSeq(ValidationMembers(8, <<"true">>), 1,
                       Len(ValidationMembers(8, <<"true">>)) - 1)),
         Object(Tail(ValidationMembers(8, <<"true">>))) }

\* "I cannot answer that."
Refusal == <<"I", " ", "cannot", " ", "answer", " ", "that", ".">>

SmallObject ==
  Object(<< Member("a", <<"1">>), Member("b", Quoted(<<"unterminated">>)) >>)

\* {"a": 1, "b": "unterminated   (cut inside the string)
CutInString == SubSeq(SmallObject, 1, Len(SmallObject) - 2)

SmallTexts ==
  { <<>>, Refusal, SmallObject,
    <<"{", DQ, "a", DQ, ":", " ", "1", ",", "}">>,
    <<"{", DQ, "a", DQ, " ", "1", "}">>,
    <<"{", "a", ":", " ", "1", "}">>,
    <<"{", SQ, "a", SQ, ":", " ", "1", "}">>,
    <<"{", DQ, "a", DQ, ":", " ", "1", "}">>,
    <<"{", "}">>,
    <<"[", "1", ",", " ", "2", "]">>,
    <<"[", "1", ",", ",", "2", "]">>,
    <<DQ, "x", DQ>>, <<"1">>, <<"null">>,
    <<BQ, BQ, BQ, "json", BQ, BQ, BQ>>,
    <<BQ, BQ, BQ, BQ, BQ, BQ>>,
    <<"I", " ", "{", "cannot", "}", " ", "answer">>,
    <<"}", " ", "{">>,
    <<"{", DQ, "text", DQ, ":", " ", DQ, " ", "x", " ", DQ, "}">>,
    <<"{", DQ, "text", DQ, ":", " ", "1", "}">> }

Fenced(t) == <<BQ, BQ, BQ, "json", "\n">> \o t \o <<"\n", BQ, BQ, BQ>>
\* "Sure! Here's the JSON:" and the fenced object
Chatty(t) ==
  <<"Sure", "!", " ", "Here", SQ, "s", " ", "the", " ", "JSON", ":", "\n">>
  \o Fenced(t)
\* A text as sent, fenced with and without the json tag, after a
\* greeting, and inside a sentence.
Wrappings(t) ==
  { t, Fenced(t), <<BQ, BQ, BQ, "\n">> \o t \o <<"\n", BQ, BQ, BQ>>,
    Chatty(t),
    <<"Here", " ", "is", " ", "the", " ", "JSON", ":", " ">> \o t
      \o <<" ", "done", ".">> }

\* A response that stopped early: up to MaxCut trailing symbols lost.
Truncations(t) ==
  { SubSeq(t, 1, Len(t) - k) : k \in 0..(IF MaxCut < Len(t) THEN MaxCut ELSE Len(t)) }

RawTexts ==
  UNION { Wrappings(t) : t \in SmallTexts \cup QuizTexts }
  \cup UNION { Truncations(t) :
                 t \in {SmallObject, Fenced(SmallObject), QuizText,
                        Fenced(QuizText)} }
  \cup QuestionTexts \cup { Fenced(QuestionText), Chatty(QuestionText) }
  \cup ValidationTexts
  \cup { Fenced(ValidationText(8, <<"false">>)) }

\* The arguments of a function call: the dicts the texts above denote.
Decoded(texts) == { json_loads(t).val : t \in texts }
GenerationArgs == Decoded(QuestionTexts)
ValidationArgs == Decoded(ValidationTexts)

\* platform and technology of the question request ('' when None).
Requests ==
  { [platform |-> <<"iOS">>, technology |-> <<"Swift">>],
    [platform |-> <<"iOS">>, technology |-> <<>>] }

Kinds == {"question", "quiz", "validation"}

(***************************************************************************)
(* The state machine: a provider answers with a text or with a function   *)
(* call; one post-processing operation consumes the answer and ends with  *)
(* a returned value or a raised exception; the caller takes the outcome.  *)
(***************************************************************************)
VARIABLES pc, op, raw, kind, args, request, result

\* The MCP service: the agent registry filled at start-up, the agent files
\* still to be scanned, the request body in flight, what handling it did
\* (adapter methods invoked, outbound provider calls) and the response.
VARIABLES loaded_agents, agent_files, body, calls, response

\* Adapter instances in use at the same time, and the process-wide
\* configuration of the google.generativeai module.
VARIABLES adapters, genai

\* The legacy dataset generation: the locals of generate_questions_dataset,
\* those of the running generate_and_validate_question, and what the
\* outside sees of them (provider calls, sleeps) in order.
VARIABLES dataset, attempt, log

\* run_servers.main and its two child processes.
VARIABLES main, mcp_process, app_process

answerVars == <<pc, op, raw, kind, args, request, result>>
serviceVars == <<loaded_agents, agent_files, body, calls, response>>
concurrentVars == <<adapters, genai>>
legacyVars == <<dataset, attempt, log>>
serverVars == <<main, mcp_process, app_process>>

otherVars == <<serviceVars, concurrentVars, legacyVars, serverVars>>

vars == <<answerVars, otherVars>>

\* The service has not started: nothing loaded, no request.
ServiceIdle ==
  /\ loaded_agents = <<>>
  /\ agent_files = {}
  /\ body = [none |-> TRUE]
  /\ calls = <<>>
  /\ response = [by |-> "none", status |-> 0]

\* No adapter instance exists; genai is not configured.
ConcurrentIdle ==
  /\ adapters = <<>>
  /\ genai = "unset"

\* No dataset generation is running.
LegacyIdle ==
  /\ dataset = <<>>
  /\ attempt = <<>>
  /\ log = <<>>

\* run_servers.main has not been started.
ServersIdle ==
  /\ main = "off"
  /\ mcp_process = "none"
  /\ app_process = "none"

NoResult == Raise("", "", FALSE, NullV, <<>>)

\* No answer is being post-processed.
AnswerIdle ==
  /\ pc = "idle"
  /\ op = "none"
  /\ raw = <<>>
  /\ kind = "none"
  /\ args = NullV
  /\ request = [platform |-> <<>>, technology |-> <<>>]
  /\ result = NoResult

Init ==
  /\ pc = "idle"
  /\ op = "none"
  /\ raw = <<>>
  /\ kind = "none"
  /\ args = NullV
  /\ request = [platform |-> <<>>, technology |-> <<>>]
  /\ result = NoResult
  /\ ServiceIdle /\ ConcurrentIdle /\ LegacyIdle /\ ServersIdle

\* The provider call returned a text.
ProviderReturnsText ==
  /\ pc = "idle"
  /\ \E t \in RawTexts : raw' = t
  /\ pc' = "text"
  /\ UNCHANGED <<op, kind, args, request, result, otherVars>>

\* The provider call returned a function call with its arguments.
ProviderReturnsGeneration ==
  /\ pc = "idle"
  /\ \E a \in GenerationArgs, r \in Requests : args' = a /\ request' = r
  /\ pc' = "generation"
  /\ UNCHANGED <<op, kind, raw, result, otherVars>>

ProviderReturnsValidation ==
  /\ pc = "idle"
  /\ \E a \in ValidationArgs : args' = a
  /\ pc' = "validation"
  /\ UNCHANGED <<op, kind, raw, request, result, otherVars>>

Done(name, k, r) ==
  /\ op' = name
  /\ kind' = k
  /\ result' = r
  /\ pc' = "done"
  /\ UNCHANGED <<raw, args, request, otherVars>>

ParseOpenAIResponse ==
  /\ pc = "text"
  /\ \E k \in Kinds : Done("parse_openai", k, parse_openai_response(raw, k))

ParseGeminiResponse ==
  /\ pc = "text"
  /\ \E k \in Kinds : Done("parse_gemini", k, parse_gemini_response(raw, k))

ParseClaudeResponse ==
  /\ pc = "text"
  /\ \E k \in Kinds : Done("parse_claude", k, parse_claude_response(raw, k))

OpenAIValidate ==
  /\ pc = "text"
  /\ Done("openai_validate", "validation", openai_validate(raw))

LegacyGemini ==
  /\ pc = "text"
  /\ Done("legacy_gemini", "none", gemini_model_response(raw))

LegacyDeepseek ==
  /\ pc = "text"
  /\ Done("legacy_deepseek", "none", deepseek_model_response(raw))

GoogleProcessGeneration ==
  /\ pc = "generation"
  /\ Done("google_generation", "question",
          process_generation_response(args, request))

GoogleProcessValidation ==
  /\ pc = "validation"
  /\ Done("google_validation", "validation",
          google_process_validation_response(args))

OpenAIProcessValidation ==
  /\ pc = "validation"
  /\ Done("openai_process_validation", "validation",
          openai_process_validation_response(args))

\* Question generation with validation switched off (legacy).
SkipValidation ==
  /\ pc = "idle"
  /\ Done("skipped_validation", "legacy_validation", skipped_validation)

\* The caller takes the outcome; the next request starts afresh.
Deliver ==
  /\ pc = "done"
  /\ pc' = "idle"
  /\ op' = "none"
  /\ raw' = <<>>
  /\ kind' = "none"
  /\ args' = NullV
  /\ request' = [platform |-> <<>>, technology |-> <<>>]
  /\ result' = NoResult
  /\ UNCHANGED otherVars

Next ==
  \/ ProviderReturnsText
  \/ ProviderReturnsGeneration
  \/ ProviderReturnsValidation
  \/ ParseOpenAIResponse
  \/ ParseGeminiResponse
  \/ ParseClaudeResponse
  \/ OpenAIValidate
  \/ LegacyGemini
  \/ LegacyDeepseek
  \/ GoogleProcessGeneration
  \/ GoogleProcessValidation
  \/ OpenAIProcessValidation
  \/ SkipValidation
  \/ Deliver

Spec == Init /\ [][Next]_vars

(***************************************************************************)
(* The sanitizers of utils.py on their own: each is a function from text  *)
(* to text, applied here to a text a caller holds.  The texts are every   *)
(* text of up to MaxLen symbols over a small alphabet (quote, backslash,  *)
(* control characters, JSON punctuation), and longer ones that show       *)
(* fences, truncation and well-formed documents.                           *)
(***************************************************************************)
MaxLen == 3

SanitizerAlphabet == {DQ, BS, "\n", "\t", ",", ":", "}", " ", "1", "x"}

\* {"a": "```swift x```"}: a fenced code block inside a string value
FenceInString ==
  Object(<< Member("a", Quoted(<<BQ, BQ, BQ, "swift", " ", "x", BQ, BQ, BQ>>)) >>)

\* ```json\n{"a": "```swift\nlet x\n```   (the response stopped right
\* after the code block of the string value)
CutAfterInnerFence ==
  <<BQ, BQ, BQ, "json", "\n", "{", DQ, "a", DQ, ":", " ", DQ, BQ, BQ, BQ,
    "swift", "\n", "let", " ", "x", "\n", BQ, BQ, BQ>>

SanitizerTexts ==
  UNION { [1..n -> SanitizerAlphabet] : n \in 0..MaxLen }
  \cup Wrappings(PlainObject)
  \cup { TrailingCommaObject, SmallObject, CutInString, TopicText,
         FenceInString, Fenced(FenceInString), CutAfterInnerFence,
         Fenced(Fenced(PlainObject)),
         Fenced(PlainObject) \o <<" ", "done", ".">>,
         Object(<< Member("a", Quoted(<<"1", " ">>)) >>),
         Object(<< Member("a", Quoted(<<"x", "\t", "y">>)) >>),
         Object(<< Member("a", Quoted(<<"x", "\n", "y", "\r">>)) >>),
         Object(<< Member("a", Quoted(<<"x", BS, "\n", "y">>)) >>),
         Object(<< Member("a", Quoted(<<"[", "1", ",", "]">>)) >>),
         Object(<< Member("a", <<"1">>) \o <<" ">>
                     \o Member("b", <<"2">>) >>),
         <<"{", DQ, "a", DQ, ":", " ", ",", " ", DQ, "b", DQ, ":", " ", "1",
           "}">>,
         <<"[", "1", ",", ",", "]">>,
         <<DQ, "x", BS, DQ>>, <<DQ, "x", BS>> }

\* The text a sanitizer returns.
Sanitized(text) ==
  [status |-> "ok", value |-> StrV(text), exc |-> "", site |-> "",
   parsed |-> FALSE, data |-> NullV, tried |-> <<>>]

SanitizerInit ==
  /\ pc = "text"
  /\ op = "none"
  /\ raw \in SanitizerTexts
  /\ kind = "none"
  /\ args = NullV
  /\ request = [platform |-> <<>>, technology |-> <<>>]
  /\ result = NoResult
  /\ ServiceIdle /\ ConcurrentIdle /\ LegacyIdle /\ ServersIdle

EscapeJsonStrings ==
  /\ pc = "text"
  /\ Done("escape_json_strings", "none", Sanitized(escape_json_strings(raw)))

RemoveTripleBackticks ==
  /\ pc = "text"
  /\ Done("remove_triple_backticks_from_outer_markdown", "none",
          Sanitized(remove_triple_backticks_from_outer_markdown(raw)))

FixUnterminatedStrings ==
  /\ pc = "text"
  /\ Done("fix_unterminated_strings_in_json", "none",
          Sanitized(fix_unterminated_strings_in_json(raw)))

EscapeNewlines ==
  /\ pc = "text"
  /\ Done("escape_newlines_in_json_strings", "none",
          Sanitized(escape_newlines_in_json_strings(raw)))

FixMissingCommas ==
  /\ pc = "text"
  /\ Done("fix_missing_commas_in_json", "none",
          Sanitized(fix_missing_commas_in_json(raw)))

FixOmittedElements ==
  /\ pc = "text"
  /\ Done("fix_omitted_elements_in_json", "none",
          Sanitized(fix_omitted_elements_in_json(raw)))

SanitizerNext ==
  \/ EscapeJsonStrings
  \/ RemoveTripleBackticks
  \/ FixUnterminatedStrings
  \/ EscapeNewlines
  \/ FixMissingCommas
  \/ FixOmittedElements

SanitizerSpec == SanitizerInit /\ [][SanitizerNext]_vars

(***************************************************************************)
(* The MCP service.  At start-up dynamic_load_agents scans the agent files *)
(* and fills the registry; afterwards each request body is handled by one  *)
(* endpoint, which answers with a status and a JSON payload.  What the     *)
(* handling does on the way (adapter constructed, adapter method invoked,  *)
(* outbound provider call) is kept in calls, in order.                     *)
(***************************************************************************)
\* Python's None where a string is expected.
None == "None"

\* Truth value of a string or None (`not provider`, `api_key or ...`).
Truthy(v) == v \notin {None, ""}

\* `a or b` on strings.
Or(a, b) == IF Truthy(a) THEN a ELSE b

\* d.get(k) and `k in d` on a dict with string keys.
get(d, k) == IF k \in DOMAIN d THEN d[k] ELSE None

\* The classes of the agents directory; two files define a GeminiAgent.
OpenAIAgent == [file |-> "openai_agent.py", name |-> "OpenAIAgent"]
GoogleGeminiAgent == [file |-> "google_agent.py", name |-> "GeminiAgent"]
GeminiAgent == [file |-> "gemini_agent.py", name |-> "GeminiAgent"]
ClaudeAgent == [file |-> "claude_agent.py", name |-> "ClaudeAgent"]
AgentProtocol == [file |-> "base_agent.py", name |-> "AgentProtocol"]
\* A class of ai_models.py, imported by every agent module.
QuestionModelClass == [file |-> "ai_models.py", name |-> "QuestionModel"]

AgentClasses == {OpenAIAgent, GoogleGeminiAgent, GeminiAgent, ClaudeAgent}

\* agents_dir.glob('*_agent.py').
AgentFiles ==
  {"openai_agent.py", "google_agent.py", "gemini_agent.py",
   "claude_agent.py", "base_agent.py"}

\* inspect.getmembers(module) that are classes: the classes the module
\* defines and those it imports.
ModuleClasses(file) ==
  {c \in AgentClasses \cup {AgentProtocol} : c.file = file}
    \cup {AgentProtocol, QuestionModelClass}

\* The static method provider() of each class; the protocol's body is `...`.
provider(cls) ==
  CASE cls = OpenAIAgent -> "openai"
    [] cls = GoogleGeminiAgent -> "google"
    [] cls = GeminiAgent -> "google"
    [] cls = ClaudeAgent -> "anthropic"
    [] OTHER -> None

supported_models(cls) ==
  CASE cls = OpenAIAgent -> {"gpt-4o", "gpt-4o-mini", "o3-mini", "o4-mini"}
    [] cls = GoogleGeminiAgent -> {"gemini-1.5-flash", "gemini-1.5-pro"}
    [] cls = GeminiAgent -> {"gemini-1.5-pro-latest", "gemini-2.0-flash"}
    [] cls = ClaudeAgent -> {"claude-3-7-sonnet", "claude-3-5-sonnet"}
    [] OTHER -> {}

OperationNames == {"generate", "validate", "quiz", "user_quiz"}

\* The operations a class defines in its own body.
OwnMethods(cls) ==
  CASE cls = GoogleGeminiAgent -> {"generate", "validate"}
    [] cls \in {OpenAIAgent, GeminiAgent, ClaudeAgent, AgentProtocol} ->
         OperationNames
    [] OTHER -> {}

\* hasattr(obj, m) and callable: own methods and those inherited from
\* AgentProtocol, which every agent class names as its base.
HasMethod(cls, m) ==
  \/ m \in OwnMethods(cls)
  \/ cls \in AgentClasses /\ m \in OwnMethods(AgentProtocol)
  \/ m \in {"provider", "supported_models"}
       /\ cls \in AgentClasses \cup {AgentProtocol}

required_methods ==
  {"provider", "supported_models", "generate", "validate", "quiz"}

\* One pass of the loop of dynamic_load_agents over the members of a module:
\* every class with the required methods and a provider is stored under it.
Registered(registry, file) ==
  LET Loadable == {c \in ModuleClasses(file) :
                     /\ \A m \in required_methods : HasMethod(c, m)
                     /\ provider(c) # None}
      Ids == {provider(c) : c \in Loadable}
  IN [p \in DOMAIN registry \cup Ids |->
        IF p \in Ids THEN CHOOSE c \in Loadable : provider(c) = p
        ELSE registry[p]]

NoBody == [none |-> TRUE]
NoResponse == [by |-> "none", status |-> 0]

ServiceInit ==
  /\ AnswerIdle /\ ConcurrentIdle /\ LegacyIdle /\ ServersIdle
  /\ loaded_agents = <<>>
  /\ agent_files = AgentFiles
  /\ body = NoBody
  /\ calls = <<>>
  /\ response = NoResponse

\* dynamic_load_agents, one agent file at a time, in the order glob yields.
LoadAgentFile ==
  /\ \E file \in agent_files :
       /\ loaded_agents' = Registered(loaded_agents, file)
       /\ agent_files' = agent_files \ {file}
  /\ UNCHANGED <<body, calls, response>>
  /\ UNCHANGED <<answerVars, concurrentVars, legacyVars, serverVars>>

\* What handling a request does, in order: an adapter is constructed, an
\* adapter method is invoked, a call goes out to the provider API with the
\* credential it is made under.
New(cls) == [event |-> "new", class |-> cls]
Invoke(cls, method) == [event |-> "method", class |-> cls, name |-> method]
Api(name, key) == [event |-> "api", name |-> name, key |-> key]

\* How an adapter constructor or method ends.
Raised(type, events) == [raised |-> type, returned |-> None, events |-> events]
Returned(value, events) ==
  [raised |-> None, returned |-> value, events |-> events]

\* pydantic's ValidationError is a ValueError.
ValueErrors == {"ValueError", "ValidationError"}

\* What the provider does with the calls of one request.
Outcomes == {"ok", "no_usage", "init_error", "api_error", "empty", "bad_answer"}

\* The payloads: a question request (RequestQuestionModel fields) and a
\* question document (QuestionModel fields, for validate).
RequestPayload(topic, platform, tags, question) ==
  [is |-> "request", topic |-> topic, platform |-> platform, tags |-> tags,
   question |-> question]
QuestionPayload == [is |-> "question"]
NoPayload == [is |-> "None"]

Payloads ==
  {RequestPayload("ARC", "iOS", <<"swift">>, ""),
   RequestPayload("ARC", "iOS", <<>>, ""),
   RequestPayload("", "", <<>>, "What is ARC?"),
   RequestPayload("", "", <<>>, ""),
   QuestionPayload}

\* `(topic and platform) or question` of the quiz and generate methods.
TopicOrQuestion(payload) ==
  (Truthy(payload.topic) /\ Truthy(payload.platform))
    \/ Truthy(payload.question)

\* __init__ of each adapter: the key it keeps (api_key or the environment's),
\* the key it writes into the google.generativeai module ("keep" if none),
\* and the calls it makes to test the connection.
AgentInit(cls, api_key, env_key, outcome) ==
  LET key == Or(api_key, env_key)
      Tested(name) ==
        IF ~Truthy(key) THEN Raised("ValueError", <<>>)
        ELSE IF outcome = "init_error"
          THEN Raised("RuntimeError", <<Api(name, key)>>)
          ELSE Returned(key, <<Api(name, key)>>)
  IN CASE cls = OpenAIAgent ->
            [done |-> Tested("models.list"), configure |-> "keep"]
       [] cls = GoogleGeminiAgent ->
            [done |-> Tested("list_models"),
             configure |-> IF Truthy(key) THEN key ELSE "keep"]
       [] cls = GeminiAgent ->
            [done |-> Returned(key, <<>>), configure |-> key]
       [] cls = ClaudeAgent ->
            [done |-> Returned(key, <<>>), configure |-> "keep"]

\* The completion call of a method and what follows it: the call fails, the
\* answer is empty, the answer does not parse, or the method returns.
Completion(call, outcome, onApiError, onEmpty, onBadAnswer) ==
  CASE outcome = "api_error" -> Raised(onApiError, <<call>>)
    [] outcome = "empty" -> Raised(onEmpty, <<call>>)
    [] outcome = "bad_answer" -> Raised(onBadAnswer, <<call>>)
    [] OTHER -> Returned("result", <<call>>)

\* generate, validate, quiz and user_quiz of each adapter, on the adapter's
\* own key and on the key the google.generativeai module holds.
AgentCall(cls, method, key, genai_key, model, payload, outcome) ==
  CASE cls = OpenAIAgent /\ method = "validate" ->
         IF model \notin supported_models(cls) THEN Raised("ValueError", <<>>)
         ELSE Completion(Api("chat.completions", key), outcome,
                         "RuntimeError", "RuntimeError", "RuntimeError")
    [] cls = OpenAIAgent /\ method # "validate" ->
         IF model \notin supported_models(cls) \/ ~TopicOrQuestion(payload)
         THEN Raised("ValueError", <<>>)
         ELSE Completion(Api("chat.completions", key), outcome,
                         "APIError", "RuntimeError", "ValueError")
    [] cls = GoogleGeminiAgent /\ method \in {"generate", "validate"} ->
         IF \/ model \notin supported_models(cls)
            \/ method = "generate"
                 /\ (~Truthy(payload.topic) \/ ~Truthy(payload.platform)
                       \/ payload.tags = <<>>)
         THEN Raised("ValueError", <<>>)
         ELSE LET counted == Api("count_tokens", genai_key)
                  made == Completion(Api("generate_content", genai_key),
                                     outcome, "RuntimeError", "ValueError",
                                     "ValueError")
              IN [made EXCEPT !.events =
                    <<counted>> \o @
                      \o IF outcome = "no_usage" THEN <<counted>> ELSE <<>>]
    [] cls = GoogleGeminiAgent /\ method \notin {"generate", "validate"} ->
         Returned(None, <<>>)
    [] cls = ClaudeAgent ->
         IF method = "user_quiz" /\ ~TopicOrQuestion(payload)
         THEN Raised("ValueError", <<>>)
         ELSE IF ~Truthy(key) THEN Raised("AttributeError", <<>>)
         ELSE Completion(Api("messages.create", key), outcome,
                         "APIError", "IndexError", "ValueError")
    [] cls = GeminiAgent ->
         IF method = "user_quiz" /\ ~TopicOrQuestion(payload)
         THEN Raised("ValueError", <<>>)
         ELSE Completion(Api("generate_content", genai_key), outcome,
                         "APIError", "ValueError", "ValueError")

\* MCPResponse of mcp_server/mcp/mcp_server.py and its dict().
MCPResponse(success, data, error, error_type) ==
  [success |-> success, data |-> data, error |-> error,
   error_type |-> error_type]

Failure(error, error_type) == MCPResponse(FALSE, None, error, error_type)

\* The except clauses of AIResource.execute.
ExecuteError(type) ==
  CASE type = "NotImplementedError" ->
         Failure("Functionality not implemented by provider",
                 "not_implemented")
    [] type \in ValueErrors -> Failure("ValueError", "agent_execution_error")
    [] OTHER -> Failure("An unexpected error occurred", "server_error")

\* AIResource.execute: the checks, the adapter constructed with the key of
\* the request, the method chosen by request_type, the result or the error
\* turned into an MCPResponse.
AIResource_execute(agent_class, config, request_type, payload, env_key, genai_key, outcome) ==
  LET init == AgentInit(agent_class, config.api_key, env_key, outcome)
      configured ==
        IF init.configure = "keep" THEN genai_key ELSE init.configure
      built == <<New(agent_class)>> \o init.done.events
      Expected ==
        IF request_type = "validate" THEN "question" ELSE "request"
      Called(done) ==
        LET events == built \o <<Invoke(agent_class, request_type)>>
                        \o done.events
        IN IF done.raised # None
           THEN [response |-> ExecuteError(done.raised), events |-> events,
                 configure |-> configured]
           ELSE IF done.returned = None
           THEN [response |-> ExecuteError("TypeError"), events |-> events,
                 configure |-> configured]
           ELSE [response |-> MCPResponse(TRUE, done.returned, None, None),
                 events |-> events, configure |-> configured]
  IN CASE provider(agent_class) # config.provider ->
            [response |-> Failure("Mismatch", "configuration_error"),
             events |-> <<>>, configure |-> genai_key]
       [] provider(agent_class) = config.provider
            /\ config.model \notin supported_models(agent_class) ->
            [response |-> Failure("Model is not supported",
                                  "configuration_error"),
             events |-> <<>>, configure |-> genai_key]
       [] OTHER ->
            IF init.done.raised # None
            THEN [response |-> ExecuteError(init.done.raised),
                  events |-> built, configure |-> configured]
            ELSE IF request_type \notin {"generate", "validate", "quiz"}
            THEN [response |-> Failure("Unsupported request type",
                                       "value_error"),
                  events |-> built, configure |-> configured]
            ELSE IF payload.is # Expected
            THEN [response |-> ExecuteError("ValidationError"),
                  events |-> built, configure |-> configured]
            ELSE Called(AgentCall(agent_class, request_type,
                                  init.done.returned, configured,
                                  config.model, payload, outcome))

\* A status and a JSON payload, and what was done to produce them.
Answer(status, content, events, configure) ==
  [status |-> status, content |-> content, events |-> events,
   configure |-> configure]

\* The dict under a key of the body that holds one ("context", "payload").
PayloadOf(b, k) == IF k \in DOMAIN b THEN b[k] ELSE NoPayload

\* execute_endpoint of mcp_server/mcp/mcp_server.py.
execute_endpoint(b, registry, env_key, genai_key, outcome) ==
  LET legacy ==
        {"resource_id", "operation_id", "context", "config"} \subseteq DOMAIN b
      provider_ == IF legacy THEN b.resource_id ELSE get(b, "provider")
      request_type == IF legacy THEN b.operation_id ELSE get(b, "request_type")
      payload == IF legacy THEN b.context ELSE PayloadOf(b, "payload")
      model == IF legacy THEN get(b.config, "model") ELSE get(b, "model")
      api_key == IF legacy THEN get(b.config, "api_key") ELSE get(b, "api_key")
      Executed(done) ==
        Answer(IF done.response.success THEN 200 ELSE 400, done.response,
               done.events, done.configure)
  IN IF \/ ~Truthy(provider_) \/ ~Truthy(model) \/ ~Truthy(request_type)
        \/ payload.is = "None"
     THEN Answer(422, [success |-> FALSE,
                       error |-> "Missing required fields in request",
                       error_type |-> "value_error"], <<>>, genai_key)
     ELSE IF provider_ \notin DOMAIN registry
     THEN Answer(422, [success |-> FALSE, error |-> "Provider not found",
                       error_type |-> "configuration_error"], <<>>, genai_key)
     ELSE Executed(AIResource_execute(
                     registry[provider_],
                     [provider |-> provider_, model |-> model,
                      api_key |-> api_key],
                     request_type, payload, env_key, genai_key, outcome))

\* The body the front application posts to the execute endpoint
\* (api_generate, api_quiz, api_user_quiz, api_validate), from the JSON the
\* browser sent; the browser's context already holds every context field.
mcp_request(operation, data) ==
  [operation |-> operation,
   context |-> data.context,
   ai |-> [provider |-> Or(get(data, "provider"),
                          Or(get(data, "ai"), get(data, "resource_id"))),
           model |-> get(data, "model"),
           api_key |-> get(data, "apiKey")]]

\* The requests of the model.
Providers == {"openai", "google", "anthropic", "mistral", None}
RequestedModels ==
  {"gpt-4o", "gemini-1.5-pro", "gemini-2.0-flash", "claude-3-7-sonnet",
   "llama", None}
ApiKeys == {"key-A", None}
EnvKeys == {"key-env", None}
RequestTypes == OperationNames \cup {"summarize"}

BrowserData ==
  {[provider |-> p, model |-> m, apiKey |-> k, context |-> c] :
     p \in Providers, m \in RequestedModels, k \in ApiKeys, c \in Payloads}

FrontBodies == {mcp_request(o, d) : o \in OperationNames, d \in BrowserData}

DirectBodies ==
  {[provider |-> p, model |-> m, api_key |-> k, request_type |-> t,
    payload |-> c] :
     p \in Providers, m \in RequestedModels, k \in ApiKeys,
     t \in RequestTypes, c \in Payloads \cup {NoPayload}}

LegacyBodies ==
  {[resource_id |-> p, operation_id |-> t, context |-> c,
    config |-> [model |-> m, api_key |-> k]] :
     p \in Providers \ {None}, m \in RequestedModels, k \in ApiKeys,
     t \in RequestTypes, c \in Payloads}

Bodies == FrontBodies \cup DirectBodies \cup LegacyBodies

\* One request handled by execute_endpoint, from the body to the response.
ExecuteEndpoint ==
  /\ agent_files = {}
  /\ body = NoBody
  /\ \E b \in Bodies, env_key \in EnvKeys, outcome \in Outcomes :
       LET answer == execute_endpoint(b, loaded_agents, env_key, genai, outcome)
       IN /\ body' = b
          /\ calls' = answer.events
          /\ response' = [by |-> "execute_endpoint", status |-> answer.status,
                          content |-> answer.content]
          /\ genai' = answer.configure
  /\ UNCHANGED <<loaded_agents, agent_files, adapters>>
  /\ UNCHANGED <<answerVars, legacyVars, serverVars>>

\* Error messages, as words: str(e) of the exceptions a provider SDK raises.
ErrorTexts ==
  {<<"Incorrect", " ", "API", " ", "key", " ", "provided">>,
   <<"Invalid", " ", "ApiKey">>,
   <<"Error", " ", "code", ":", " ", "401">>,
   <<"Rate", " ", "limit", " ", "reached">>,
   <<"Connection", " ", "error">>}

\* str.lower() and the `in` operator on such texts.
lower(text) ==
  [i \in DOMAIN text |->
     CASE text[i] = "API" -> "api"
       [] text[i] = "Key" -> "key"
       [] text[i] = "ApiKey" -> "apikey"
       [] text[i] = "Incorrect" -> "incorrect"
       [] text[i] = "Invalid" -> "invalid"
       [] text[i] = "Error" -> "error"
       [] text[i] = "Rate" -> "rate"
       [] text[i] = "Connection" -> "connection"
       [] OTHER -> text[i]]

Contains(text, needle) ==
  \E i \in 1..(Len(text) - Len(needle) + 1) :
    SubSeq(text, i, i + Len(needle) - 1) = needle

\* execute_mcp_operation of mcp_server/mcp_main.py: the body must hold
\* resource_id and operation_id (MCPExecuteRequest); its registry holds the
\* loaded classes under their lower-cased names without "Agent"; a failure
\* is raised as HTTPException(detail=...), which the framework answers with
\* the payload under "detail".  No agent class has SUPPORTED_MODELS.
execute_mcp_operation(b, registry) ==
  LET resource_id(cls) ==
        CASE cls = OpenAIAgent -> "openai"
          [] cls = ClaudeAgent -> "claude"
          [] OTHER -> "gemini"
      resources == {resource_id(registry[p]) : p \in DOMAIN registry}
      HTTPException(status, error, error_type) ==
        Answer(status, [detail |-> Failure(error, error_type)], <<>>, "keep")
  IN IF ~({"resource_id", "operation_id"} \subseteq DOMAIN b)
     THEN Answer(422, [detail |-> "Field required"], <<>>, "keep")
     ELSE IF b.resource_id \notin resources
     THEN HTTPException(404, "Resource not found", "resource_not_found")
     ELSE IF ~Truthy(get(PayloadOf(b, "config"), "model"))
     THEN HTTPException(400, "'model' is required in config", "config_error")
     ELSE Answer(500, [text |-> "Internal Server Error"], <<>>, "keep")

ExecuteMcpOperation ==
  /\ agent_files = {}
  /\ body = NoBody
  /\ \E b \in Bodies :
       LET answer == execute_mcp_operation(b, loaded_agents)
       IN /\ body' = b
          /\ calls' = answer.events
          /\ response' = [by |-> "execute_mcp_operation",
                          status |-> answer.status, content |-> answer.content]
  /\ UNCHANGED <<loaded_agents, agent_files>>
  /\ UNCHANGED <<answerVars, concurrentVars, legacyVars, serverVars>>

\* MCPResponse.to_dict of models/mcp_server.py.
to_dict(success, data, error, error_type) ==
  IF error = <<>> THEN [success |-> success, data |-> data]
  ELSE IF error_type = None
  THEN [success |-> success, data |-> data, error |-> error]
  ELSE [success |-> success, data |-> data, error |-> error,
        error_type |-> error_type]

\* AIResource.execute of models/mcp_server.py, after the handler of the
\* model type has returned or raised.
legacy_execute(model_type, raised, error_msg) ==
  IF model_type \notin {"openai", "google", "deepseek"}
  THEN to_dict(FALSE, "{}", <<"Unsupported", " ", "model", " ", "type">>, None)
  ELSE IF raised = None THEN to_dict(TRUE, "result", <<>>, None)
  ELSE IF raised \in ValueErrors
          /\ (\/ Contains(lower(error_msg), <<"api", " ", "key">>)
              \/ Contains(lower(error_msg), <<"apikey">>)
              \/ Contains(lower(error_msg), <<"incorrect", " ", "api", " ", "key">>))
  THEN to_dict(FALSE, "{}", error_msg, "api_key")
  ELSE to_dict(FALSE, "{}", error_msg, None)

LegacyExecute ==
  /\ agent_files = {}
  /\ body = NoBody
  /\ \E model_type \in {"openai", "google", "deepseek", "mistral"},
        raised \in {None, "ValueError", "Exception"},
        error_msg \in ErrorTexts :
       /\ body' = [model_type |-> model_type]
       /\ response' = [by |-> "AIResource.execute", status |-> 200,
                       content |-> legacy_execute(model_type, raised, error_msg)]
  /\ calls' = <<>>
  /\ UNCHANGED <<loaded_agents, agent_files>>
  /\ UNCHANGED <<answerVars, concurrentVars, legacyVars, serverVars>>

\* The response has gone to the client; the next request may come.
Reply ==
  /\ body # NoBody
  /\ body' = NoBody
  /\ calls' = <<>>
  /\ response' = NoResponse
  /\ UNCHANGED <<loaded_agents, agent_files>>
  /\ UNCHANGED <<answerVars, concurrentVars, legacyVars, serverVars>>

ServiceNext ==
  \/ LoadAgentFile
  \/ ExecuteEndpoint
  \/ ExecuteMcpOperation
  \/ LegacyExecute
  \/ Reply

ServiceSpec == ServiceInit /\ [][ServiceNext]_vars

\* Requests handled at the same time, each by a handler of its own that
\* constructs its own adapter (AIResource.execute) and then calls one of its
\* methods; the google.generativeai module and its configured key are one
\* per process.
Handlers == {1, 2}
HandlerKeys == [h \in Handlers |-> IF h = 1 THEN "key-A" ELSE "key-B"]

IdleAdapter ==
  [pc |-> "idle", class |-> AgentProtocol, api_key |-> None,
   model |-> None, events |-> <<>>]

ConcurrentInit ==
  /\ AnswerIdle /\ ServiceIdle /\ LegacyIdle /\ ServersIdle
  /\ adapters = [h \in Handlers |-> IdleAdapter]
  /\ genai = "unset"

\* agent_instance = agent_class(api_key=context.config.get('api_key')).
Construct(h) ==
  /\ adapters[h].pc = "idle"
  /\ \E cls \in AgentClasses, model \in RequestedModels :
       LET init == AgentInit(cls, HandlerKeys[h], None, "ok")
       IN /\ model \in supported_models(cls)
          /\ adapters' = [adapters EXCEPT ![h] =
               [pc |-> "built", class |-> cls,
                api_key |-> init.done.returned, model |-> model,
                events |-> init.done.events]]
          /\ genai' = IF init.configure = "keep" THEN genai
                      ELSE init.configure
  /\ UNCHANGED <<answerVars, serviceVars, legacyVars, serverVars>>

\* agent_instance.generate(request), .validate(request) or .quiz(request).
CallMethod(h) ==
  /\ adapters[h].pc = "built"
  /\ \E method \in {"generate", "validate", "quiz"} :
       LET a == adapters[h]
           payload == IF method = "validate" THEN QuestionPayload
                      ELSE RequestPayload("ARC", "iOS", <<"swift">>, "")
           done == AgentCall(a.class, method, a.api_key, genai, a.model,
                             payload, "ok")
       IN adapters' = [adapters EXCEPT ![h] =
            [a EXCEPT !.pc = "called", !.events = @ \o done.events]]
  /\ UNCHANGED genai
  /\ UNCHANGED <<answerVars, serviceVars, legacyVars, serverVars>>

\* The response is returned and the adapter dropped.
Respond(h) ==
  /\ adapters[h].pc = "called"
  /\ adapters' = [adapters EXCEPT ![h] = IdleAdapter]
  /\ UNCHANGED genai
  /\ UNCHANGED <<answerVars, serviceVars, legacyVars, serverVars>>

ConcurrentNext ==
  \E h \in Handlers :
    \/ Construct(h)
    \/ CallMethod(h)
    \/ Respond(h)

ConcurrentSpec == ConcurrentInit /\ [][ConcurrentNext]_vars

(***************************************************************************)
(* The legacy generator of models/openai_model.py and                      *)
(* models/structuredOpenAI.py: generate_questions_dataset and the retry    *)
(* loop of generate_and_validate_question.                                 *)
(***************************************************************************)
MaxRetries == 2
MaxNumber == 2

LegacyModules == {"openai_model", "structuredOpenAI"}

\* What the provider does in one attempt: the validation passes or fails,
\* or one of the two calls raises an error with a text.
AttemptOutcomes ==
  {[at |-> a, text |-> <<>>] : a \in {"passed", "failed"}}
    \cup {[at |-> a, text |-> t] :
            a \in {"generation_error", "validation_error"}, t \in ErrorTexts}

\* The test of the except clause of generate_and_validate_question.
IsApiKeyErrorWithout401(error_msg) ==
  \/ Contains(lower(error_msg), <<"api", " ", "key">>)
  \/ Contains(lower(error_msg), <<"apikey">>)
  \/ Contains(lower(error_msg), <<"incorrect", " ", "api", " ", "key">>)

IsApiKeyError(error_msg) ==
  \/ Contains(lower(error_msg), <<"api", " ", "key">>)
  \/ Contains(lower(error_msg), <<"apikey">>)
  \/ Contains(lower(error_msg), <<"incorrect", " ", "api", " ", "key">>)
  \/ Contains(error_msg, <<"401">>)

ApiKeyErrorPrefix == <<"API", " ", "Key", " ", "Error", ":", " ">>

\* The frame of one call of generate_and_validate_question.
NoFrame ==
  [pc |-> "none", module |-> "none", max_retries |-> 0, validation |-> FALSE,
   attempt |-> 0, attempts |-> 0, result |-> None, pair |-> FALSE,
   passed |-> FALSE, made |-> "none", error_msg |-> <<>>,
   raised |-> <<>>]

\* The call: attempts = 0, and the for loop over range(max_retries); with
\* no iteration the function ends without a return statement.
generate_and_validate_question(module, max_retries, validation) ==
  [NoFrame EXCEPT !.pc = IF max_retries > 0 THEN "try" ELSE "returned",
                  !.module = module, !.max_retries = max_retries,
                  !.validation = validation]

\* One iteration of the loop: the frame after it and the calls and sleeps
\* it made.
AttemptStep(f, outcome) ==
  LET generation == "generation"
      validation == "validation"
      last == f.attempt = f.max_retries - 1
      counted == [f EXCEPT !.attempts = @ + 1]
      Unsuccessful(events) ==
        IF last
        THEN [frame |-> [counted EXCEPT !.pc = "returned", !.result = None,
                                        !.pair = TRUE],
              events |-> events]
        ELSE [frame |-> [counted EXCEPT !.attempt = @ + 1],
              events |-> events \o <<"sleep">>]
      caught == [counted EXCEPT !.error_msg = outcome.text]
      Retried(events) ==
        IF last
        THEN [frame |-> [caught EXCEPT !.pc = "returned", !.result = None,
                                       !.pair = TRUE],
              events |-> events]
        ELSE [frame |-> [caught EXCEPT !.attempt = @ + 1],
              events |-> events \o <<"sleep">>]
      Except(events) ==
        IF f.module = "openai_model" /\ IsApiKeyError(outcome.text)
        THEN [frame |-> [caught EXCEPT
                           !.pc = "raised",
                           !.raised = ApiKeyErrorPrefix \o outcome.text],
              events |-> events]
        ELSE Retried(events)
      asked == IF f.validation THEN <<generation, validation>>
               ELSE <<generation>>
  IN CASE outcome.at = "generation_error" -> Except(<<generation>>)
       [] outcome.at = "validation_error" -> Except(asked)
       [] outcome.at = "failed" -> Unsuccessful(asked)
       [] OTHER ->
            [frame |-> [counted EXCEPT
                          !.pc = "returned", !.result = "question",
                          !.pair = TRUE, !.passed = TRUE,
                          !.made = IF f.validation THEN "validated"
                                   ELSE "skipped"],
             events |-> asked]

\* generate_questions_dataset at the start of its loop.  `validation` is the
\* local variable of that name, `requested` the argument it started as.
NoDataset ==
  [pc |-> "idle", module |-> "none", caller |-> "none", number |-> 0,
   max_retries |-> 0, requested |-> FALSE, validation |-> FALSE, i |-> 0,
   validations |-> <<>>, total_attempts |-> 0, complete_failures |-> 0,
   raised |-> <<>>, response |-> [success |-> TRUE, data |-> "none"]]

LegacyInit ==
  /\ AnswerIdle /\ ServiceIdle /\ ConcurrentIdle /\ ServersIdle
  /\ dataset = NoDataset
  /\ attempt = NoFrame
  /\ log = <<>>

\* generate_questions_dataset is called: by generate_structured_question
\* (openai_model.py, max_retries=1) or with arguments of the caller's own.
GenerateQuestionsDataset ==
  /\ dataset.pc = "idle"
  /\ \E module \in LegacyModules,
        caller \in {"generate_structured_question", "direct"},
        number \in 0..MaxNumber, max_retries \in 0..MaxRetries,
        validation \in BOOLEAN :
       /\ caller = "generate_structured_question" =>
            module = "openai_model" /\ max_retries = 1
       /\ module = "structuredOpenAI" => validation
       /\ dataset' = [NoDataset EXCEPT
                        !.pc = "loop", !.module = module, !.caller = caller,
                        !.number = number, !.max_retries = max_retries,
                        !.requested = validation, !.validation = validation]
  /\ log' = <<>>
  /\ UNCHANGED attempt
  /\ UNCHANGED <<answerVars, serviceVars, concurrentVars, serverVars>>

\* The loop body calls generate_and_validate_question(validation=validation).
CallGenerateAndValidate ==
  /\ dataset.pc = "loop"
  /\ dataset.i < dataset.number
  /\ dataset' = [dataset EXCEPT !.pc = "calling"]
  /\ attempt' = generate_and_validate_question(
                  dataset.module, dataset.max_retries, dataset.validation)
  /\ UNCHANGED log
  /\ UNCHANGED <<answerVars, serviceVars, concurrentVars, serverVars>>

\* One attempt of the retry loop.
TryAttempt ==
  /\ attempt.pc = "try"
  /\ \E outcome \in AttemptOutcomes :
       /\ outcome.at \in {"failed", "validation_error"} => attempt.validation
       /\ LET step == AttemptStep(attempt, outcome)
          IN /\ attempt' = step.frame
             /\ log' = log \o step.events
  /\ UNCHANGED dataset
  /\ UNCHANGED <<answerVars, serviceVars, concurrentVars, serverVars>>

\* The loop body after the call: `result, attempts_made = ...`, the
\* statistics, and `question, validation, processing_time = result`, which
\* in openai_model.py assigns the validation object to the variable that
\* held the argument.  An exception of the call leaves the function.
Collect ==
  /\ dataset.pc = "calling"
  /\ attempt.pc \in {"returned", "raised"}
  /\ dataset' =
       IF attempt.pc = "raised"
       THEN [dataset EXCEPT !.pc = "raised", !.raised = attempt.raised]
       ELSE IF ~attempt.pair
       THEN [dataset EXCEPT !.pc = "raised", !.raised = <<"TypeError">>]
       ELSE IF attempt.result = None
       THEN [dataset EXCEPT !.pc = "loop", !.i = @ + 1,
                            !.total_attempts = @ + attempt.attempts,
                            !.complete_failures = @ + 1]
       ELSE [dataset EXCEPT !.pc = "loop", !.i = @ + 1,
                            !.total_attempts = @ + attempt.attempts,
                            !.validation = TRUE,
                            !.validations = Append(@, attempt.made)]
  /\ attempt' = NoFrame
  /\ UNCHANGED log
  /\ UNCHANGED <<answerVars, serviceVars, concurrentVars, serverVars>>

\* The except clause of generate_structured_question.
generate_structured_question_error(error_str) ==
  IF \/ Contains(lower(error_str), <<"api", " ", "key">>)
     \/ Contains(lower(error_str), <<"apikey">>)
  THEN error_str
  ELSE <<"Failed", " ", "to", " ", "generate", " ", "question", ":", " ">>
         \o error_str

\* The loop is over and the lists are returned, or the exception reaches
\* the caller: generate_structured_question raises it again as ValueError
\* and AIResource.execute of models/mcp_server.py answers.
ReturnDataset ==
  /\ \/ dataset.pc = "loop" /\ dataset.i = dataset.number
     \/ dataset.pc = "raised"
  /\ dataset' =
       IF dataset.pc = "loop"
       THEN [dataset EXCEPT !.pc = "done",
               !.response = legacy_execute("openai", None, <<>>)]
       ELSE IF dataset.caller = "generate_structured_question"
       THEN [dataset EXCEPT !.pc = "failed",
               !.response =
                 legacy_execute("openai", "ValueError",
                   generate_structured_question_error(dataset.raised))]
       ELSE [dataset EXCEPT !.pc = "failed"]
  /\ UNCHANGED <<attempt, log>>
  /\ UNCHANGED <<answerVars, serviceVars, concurrentVars, serverVars>>

\* The caller has the outcome; the next call may come.
NextDataset ==
  /\ dataset.pc \in {"done", "failed"}
  /\ dataset' = NoDataset
  /\ log' = <<>>
  /\ UNCHANGED attempt
  /\ UNCHANGED <<answerVars, serviceVars, concurrentVars, serverVars>>

LegacyNext ==
  \/ GenerateQuestionsDataset
  \/ CallGenerateAndValidate
  \/ TryAttempt
  \/ Collect
  \/ ReturnDataset
  \/ NextDataset

LegacySpec == LegacyInit /\ [][LegacyNext]_vars

(***************************************************************************)
(* run_servers.py: main starts the MCP server and the application as child *)
(* processes and waits.  A child is "none" before Popen, then "running",   *)
(* "interrupted" when the terminal's Ctrl+C has reached it as well,        *)
(* "terminated" once terminate() was called on it while it lived, and      *)
(* when it has ended "exited" (of itself), "exited_sigint" or              *)
(* "exited_sigterm" (Popen.returncode -2 and -15).                         *)
(***************************************************************************)
ServersInit ==
  /\ AnswerIdle /\ ServiceIdle /\ ConcurrentIdle /\ LegacyIdle
  /\ main = "off"
  /\ mcp_process = "none"
  /\ app_process = "none"

\* Popen.terminate().
terminate(process) ==
  IF process \in {"running", "interrupted"} THEN "terminated" ELSE process

\* SIGINT reaches a child of the foreground process group.
interrupt(process) == IF process = "running" THEN "interrupted" ELSE process

\* The process ends.
exit(process) ==
  CASE process = "interrupted" -> "exited_sigint"
    [] process = "terminated" -> "exited_sigterm"
    [] OTHER -> "exited"

\* Popen.poll() is None.
alive(process) == process \in {"running", "interrupted", "terminated"}

\* python run_servers.py, for the first time or again.
StartMain ==
  /\ main \in {"off", "ended", "interrupted"}
  /\ main' = "check_ports"
  /\ UNCHANGED <<mcp_process, app_process>>
  /\ UNCHANGED <<answerVars, serviceVars, concurrentVars, legacyVars>>

\* check_ports: MCP_SERVER_PORT, then APPLICATION_PORT.  A port is in use by
\* another program or by the child of an earlier run that still lives; main
\* returns when one is.
CheckPorts ==
  /\ main \in {"check_ports", "check_application_port"}
  /\ \E in_use \in BOOLEAN :
       main' = IF main = "check_ports"
               THEN IF in_use \/ alive(mcp_process) THEN "ended"
                    ELSE "check_application_port"
               ELSE IF in_use \/ alive(app_process) THEN "ended"
                    ELSE "run_mcp_server"
  /\ UNCHANGED <<mcp_process, app_process>>
  /\ UNCHANGED <<answerVars, serviceVars, concurrentVars, legacyVars>>

\* run_mcp_server: Popen, then sleep(2).
RunMcpServer ==
  /\ main = "run_mcp_server"
  /\ mcp_process' = "running"
  /\ main' = "mcp_started"
  /\ UNCHANGED app_process
  /\ UNCHANGED <<answerVars, serviceVars, concurrentVars, legacyVars>>

\* run_mcp_server: poll() and the return of the process or None; main then
\* sleeps two seconds.
McpPolled ==
  /\ main = "mcp_started"
  /\ main' = IF mcp_process = "running" THEN "mcp_wait" ELSE "mcp_none"
  /\ UNCHANGED <<mcp_process, app_process>>
  /\ UNCHANGED <<answerVars, serviceVars, concurrentVars, legacyVars>>

\* main: `if mcp_process is None: return`.
McpChecked ==
  /\ main \in {"mcp_wait", "mcp_none"}
  /\ main' = IF main = "mcp_none" THEN "ended" ELSE "run_application"
  /\ UNCHANGED <<mcp_process, app_process>>
  /\ UNCHANGED <<answerVars, serviceVars, concurrentVars, legacyVars>>

\* run_application: Popen, then sleep(2).
RunApplication ==
  /\ main = "run_application"
  /\ app_process' = "running"
  /\ main' = "app_started"
  /\ UNCHANGED mcp_process
  /\ UNCHANGED <<answerVars, serviceVars, concurrentVars, legacyVars>>

\* run_application: poll() and the return; main then sleeps two seconds.
AppPolled ==
  /\ main = "app_started"
  /\ main' = IF app_process = "running" THEN "app_wait" ELSE "app_none"
  /\ UNCHANGED <<mcp_process, app_process>>
  /\ UNCHANGED <<answerVars, serviceVars, concurrentVars, legacyVars>>

\* main: `if app_process is None: mcp_process.terminate(); return`, else
\* the loop `while True: time.sleep(1)` inside the try.
AppChecked ==
  /\ main \in {"app_wait", "app_none"}
  /\ main' = IF main = "app_none" THEN "ended" ELSE "serving"
  /\ mcp_process' = IF main = "app_none" THEN terminate(mcp_process)
                    ELSE mcp_process
  /\ UNCHANGED app_process
  /\ UNCHANGED <<answerVars, serviceVars, concurrentVars, legacyVars>>

\* Ctrl+C: KeyboardInterrupt is raised in main where it stands.  The except
\* clause encloses the final loop only; anywhere else the exception ends
\* main.  The signal goes to main alone (kill -INT) or to the whole
\* foreground process group (the terminal), children included.
KeyboardInterrupt ==
  /\ main \notin {"off", "ended", "interrupted"}
  /\ \E group \in BOOLEAN :
       LET mcp == IF group THEN interrupt(mcp_process) ELSE mcp_process
           app == IF group THEN interrupt(app_process) ELSE app_process
       IN /\ mcp_process' = IF main = "serving" THEN terminate(mcp) ELSE mcp
          /\ app_process' = IF main = "serving" THEN terminate(app) ELSE app
  /\ main' = IF main = "serving" THEN "ended" ELSE "interrupted"
  /\ UNCHANGED <<answerVars, serviceVars, concurrentVars, legacyVars>>

\* A child process ends, of itself or after terminate().
McpExits ==
  /\ alive(mcp_process)
  /\ mcp_process' = exit(mcp_process)
  /\ UNCHANGED <<main, app_process>>
  /\ UNCHANGED <<answerVars, serviceVars, concurrentVars, legacyVars>>

AppExits ==
  /\ alive(app_process)
  /\ app_process' = exit(app_process)
  /\ UNCHANGED <<main, mcp_process>>
  /\ UNCHANGED <<answerVars, serviceVars, concurrentVars, legacyVars>>

ServersNext ==
  \/ StartMain
  \/ CheckPorts
  \/ RunMcpServer
  \/ McpPolled
  \/ McpChecked
  \/ RunApplication
  \/ AppPolled
  \/ AppChecked
  \/ KeyboardInterrupt
  \/ McpExits
  \/ AppExits

ServersSpec == ServersInit /\ [][ServersNext]_vars

(***************************************************************************)
(* Properties.                                                             *)
(***************************************************************************)
\* The three response parsers, and every operation that decodes a text.
ParserOps == {"parse_openai", "parse_gemini", "parse_claude"}
TextOps ==
  ParserOps \cup {"openai_validate", "legacy_gemini", "legacy_deepseek"}

Finished(ops) == pc = "done" /\ op \in ops

\* No decode attempt of the finished operation produced a document.
NothingDecoded == \A i \in 1..Len(result.tried) : ~result.tried[i].ok

\* C1: when the raw response holds no JSON-like substring, or no decode
\* attempt succeeds on it, the operation ends with an error; it never
\* returns a default, empty or placeholder object.
C1_NoPlaceholder ==
  (Finished(TextOps) /\ NothingDecoded) => result.status = "error"

\* The order of decode strategies the specification gives.
StrategyOrder ==
  <<"strict", "lenient", "extract_strict", "extract_lenient", "hardcut">>

\* C2: the decode strategies run in the order strict, lenient, regex
\* extraction (strict, then lenient), hard cut; a strategy is attempted
\* only if every earlier one failed, and schema validation gets the
\* document of the first strategy that succeeded.
C2_StrategyOrder ==
  Finished({"parse_gemini", "parse_claude"}) =>
    LET t == result.tried
    IN  /\ Len(t) <= Len(StrategyOrder)
        /\ \A i \in 1..Len(t) :
             /\ t[i].strategy = StrategyOrder[i]
             /\ i < Len(t) => ~t[i].ok
        /\ result.parsed => (t # <<>> /\ t[Len(t)].ok)

\* C3: on the raw text {"a": 1, "b": "unterminated the parser reaches the
\* hard cut and obtains a document whose key a has value 1; it does not
\* end with a parse failure.
C3_HardCutRecovers ==
  (Finished(ParserOps) /\ raw = CutInString) =>
    /\ result.parsed
    /\ \E i \in 1..Len(result.tried) : result.tried[i].strategy = "hardcut"
    /\ Has(result.data, "a")
    /\ Get(result.data, "a") = NumV(1)

RECURSIVE HasEvery(_, _, _)
\* Whether document v holds every field of schema type, nested models
\* included; with requiredOnly, every field that has no default.
HasEvery(type, v, requiredOnly) ==
  IF type = "tests"
  THEN Kind(v) = "list" =>
         \A i \in 1..Len(v[2]) : HasEvery("CodeTestModel", v[2][i], requiredOnly)
  ELSE IF type \notin ModelNames THEN TRUE
  ELSE /\ IsObj(v)
       /\ \A i \in 1..Len(ModelFields(type)) :
            LET f == ModelFields(type)[i]
            IN  \/ requiredOnly /\ f[3]
                \/ Has(v, f[1]) /\ HasEvery(f[2], Get(v, f[1]), requiredOnly)

\* C4 as stated: no typed object is returned from a document in which any
\* field of the target schema is missing.
C4_AnyFieldLost ==
  (Finished(ParserOps) /\ result.status = "ok") =>
    HasEvery(SchemaOf(kind), result.data, FALSE)

\* C4: no typed object is returned from a document in which a required
\* field (one without a default) of the target schema is missing; such a
\* document ends in an error.
C4_RequiredFieldLost ==
  (Finished(ParserOps) /\ result.status = "ok") =>
    HasEvery(SchemaOf(kind), result.data, TRUE)

\* Brace slicing dropped the question member and the quiz was rejected.
C4_Witness ==
  /\ Finished(ParserOps)
  /\ raw = QuizQuestionAfter
  /\ kind = "quiz"
  /\ result.parsed
  /\ ~HasEvery("QuizModel", result.data, TRUE)
  /\ result.status = "error"

RECURSIVE Conforms(_, _)
\* Whether v is an instance of type: exactly the declared fields, each of
\* its declared type, a level named as its validator demands.
Conforms(type, v) ==
  CASE type = "str" -> Kind(v) = "str"
    [] type = "optstr" -> Kind(v) \in {"str", "null"}
    [] type = "int" -> Kind(v) = "num"
    [] type = "bool" -> Kind(v) = "bool"
    [] type = "strlist" ->
         Kind(v) = "list" /\ \A i \in 1..Len(v[2]) : Kind(v[2][i]) = "str"
    [] type = "tests" ->
         Kind(v) = "list"
         /\ \A i \in 1..Len(v[2]) : Conforms("CodeTestModel", v[2][i])
    [] OTHER ->
         /\ IsObj(v)
         /\ Fields(v) = {Key(ModelFields(type)[i][1]) :
                           i \in 1..Len(ModelFields(type))}
         /\ \A i \in 1..Len(ModelFields(type)) :
              Conforms(ModelFields(type)[i][2], Get(v, ModelFields(type)[i][1]))
         /\ type = "AnswerLevelModel" =>
              Get(v, "name")[2] \in {<<"Beginner">>, <<"Intermediate">>,
                                     <<"Advanced">>}

\* The operations that return a typed object, and the schema of each.
TypedOps ==
  ParserOps \cup {"openai_validate", "google_generation", "google_validation",
                  "openai_process_validation", "skipped_validation"}
TargetSchema ==
  IF op = "skipped_validation" THEN "LegacyQuestionValidation"
  ELSE SchemaOf(kind)

\* C5: coercion is all-or-nothing: what an operation returns is an
\* instance of its target schema in full, and an operation that fails
\* returns nothing.
C5_AllOrNothing ==
  Finished(TypedOps) =>
    IF result.status = "ok" THEN Conforms(TargetSchema, result.value)
    ELSE result.value = NullV

\* A question whose bare-string topic was autofixed came back typed.
C5_Witness ==
  /\ Finished({"google_generation"})
  /\ Has(args, "topic")
  /\ Kind(Get(args, "topic")) = "str"
  /\ result.status = "ok"
  /\ Conforms("TopicModel", Get(result.value, "topic"))

\* The kind of failure an exception reports, by its class and message.
ReportedKind(r) ==
  CASE r.site \in {"Could not parse JSON from OpenAI response",
                   "Could not find JSON object in Gemini response",
                   "Could not parse JSON from Gemini response",
                   "Could not parse JSON from Gemini response after hard cut",
                   "Could not find JSON object in Claude response",
                   "demjson3.decode"} -> "parse"
    [] r.site \in {"model_validate",
                   "Claude response does not match expected schema"} -> "schema"
    [] OTHER -> "other"

\* What made the operation fail: no document decoded, or a decoded
\* document that the schema rejects.
ActualCause(r) == IF r.parsed THEN "schema" ELSE "parse"

\* C6: every failure that leaves a response parser is a parse failure or
\* a schema failure, and the kind reported is the kind that occurred.
C6_TwoKinds ==
  (Finished(ParserOps) /\ result.status = "error") =>
    /\ ReportedKind(result) \in {"parse", "schema"}
    /\ ReportedKind(result) = ActualCause(result)

\* The sanitizers in the order the specification gives them.
SanitizerOrder ==
  <<"remove_triple_backticks_from_outer_markdown",
    "fix_unterminated_strings_in_json", "escape_newlines_in_json_strings",
    "fix_missing_commas_in_json", "fix_omitted_elements_in_json">>

\* C7: every decode attempt, the fallback stages included, is made on a
\* text that went through the sanitizers in their fixed order.
C7_SanitizedFirst ==
  Finished(ParserOps) =>
    \A i \in 1..Len(result.tried) :
      result.tried[i].sanitizers = SanitizerOrder

\* C8: for the same raw text and target kind the three adapters return
\* the same typed object, or all fail.
C8_SameOutcome ==
  Finished(ParserOps) =>
    LET o == parse_openai_response(raw, kind)
        g == parse_gemini_response(raw, kind)
        c == parse_claude_response(raw, kind)
    IN  /\ o.status = g.status /\ g.status = c.status
        /\ o.value = g.value /\ g.value = c.value

\* The operations that return a Validation, and the document each was
\* given: the arguments of the call, or what was decoded from the text.
ValidationOps ==
  ParserOps \cup {"openai_validate", "google_validation",
                  "openai_process_validation"}
GivenDocument ==
  IF op \in {"google_validation", "openai_process_validation"} THEN args
  ELSE result.data

\* Well-formed validation documents, scores in range, whose passed flag
\* disagrees with quality_score >= 7.
Mismatched ==
  { json_loads(ValidationText(q, Boolean(~(q >= PassMark)))).val :
      q \in ScoreMin..ScoreMax }

C10_StubFilled ==
  \A i \in 1..Len(LevelNames) :
    (Finished({"google_generation"})
       /\ args = json_loads(QuestionWithout(i)).val) =>
      /\ result.status = "ok"
      /\ Get(Get(Get(result.value, "answerLevels"), LevelNames[i]), "answer")
           = StrV(<<>>)

\* The operations that return a Question, and the document each was
\* given: the arguments of the call, or what was decoded from the text.
QuestionOps == ParserOps \cup {"google_generation"}
GivenQuestion == IF op = "google_generation" THEN args ELSE result.data

\* Document doc has none of the three levels: answerLevels is absent, is
\* no object, or holds none of beginner, intermediate, advanced.
NoLevels(doc) ==
  /\ IsObj(doc)
  /\ \A i \in 1..Len(LevelNames) :
       ~(Has(doc, "answerLevels")
           /\ Has(Get(doc, "answerLevels"), LevelNames[i]))

C12_TopicWrapped ==
  /\ (Finished({"google_generation"})
        /\ args = json_loads(BareTopicQuestion).val) =>
       /\ result.status = "ok"
       /\ Get(result.value, "topic")
            = ObjV(Put(Put(Put(EmptyMap,
                Key("name"), StrV(<<"ARC">>)),
                Key("platform"), StrV(request.platform)),
                Key("technology"), StrV(request.technology)))
  /\ (Finished(ParserOps) /\ result.parsed
        /\ \/ kind = "quiz" /\ result.data = json_loads(BareTopicQuiz).val
           \/ kind = "question"
                /\ result.data = json_loads(BareTopicQuestion).val) =>
       /\ result.status = "ok"
       /\ IsObj(Get(result.value, "topic"))
       /\ Get(Get(result.value, "topic"), "name") = StrV(<<"ARC">>)

\* C13: on the text {"a": 1,} a parser's strict parse fails, a lenient
\* parse succeeds, and the document obtained is the one {"a": 1} decodes
\* to.
C13_TrailingComma ==
  (Finished(ParserOps) /\ raw = TrailingCommaObject) =>
    /\ result.tried # <<>>
    /\ result.tried[1].strategy = "strict"
    /\ ~result.tried[1].ok
    /\ \E i \in 1..Len(result.tried) :
         /\ result.tried[i].strategy \in {"lenient", "extract_lenient"}
         /\ result.tried[i].ok
    /\ result.parsed
    /\ result.data = json_loads(PlainObject).val

\* The sanitizers, by name, and the text the finished one returned.
SanitizerOps ==
  {"escape_json_strings", "remove_triple_backticks_from_outer_markdown",
   "fix_unterminated_strings_in_json", "escape_newlines_in_json_strings",
   "fix_missing_commas_in_json", "fix_omitted_elements_in_json"}
Output == result.value[2]

RECURSIVE InsideAfter(_, _)
\* Reading s from the left: <<inside, escaped>> after its first n
\* symbols.  A quote met outside a string opens one; inside a string a
\* backslash escapes the symbol after it and an unescaped quote closes.
InsideAfter(s, n) ==
  LET Tracked(st, c) ==
        << IF st[1] THEN st[2] \/ c # DQ ELSE c = DQ,
           st[1] /\ ~st[2] /\ c = BS >>
  IN  IF n <= 0 THEN <<FALSE, FALSE>>
      ELSE Tracked(InsideAfter(s, n - 1), s[n])

\* C14: the unterminated-string closer returns its input followed by one
\* closing quote when the input ends inside a quoted string (inside-string
\* state and backslash escapes tracked from the left), and its input as
\* it is otherwise.
C14_ClosesUnterminated ==
  Finished({"fix_unterminated_strings_in_json"}) =>
    Output = IF InsideAfter(raw, Len(raw))[1] THEN raw \o <<DQ>> ELSE raw

\* A text that ends inside a string, after an escaped quote, got its one
\* closing quote.
C14_Witness ==
  /\ Finished({"fix_unterminated_strings_in_json"})
  /\ raw = <<DQ, "x", BS, DQ>>
  /\ Output = <<DQ, "x", BS, DQ, DQ>>

\* The trimmed text starts with a fence and ends with another.
Wrapped(s) ==
  /\ Len(Strip(s)) >= 6
  /\ FenceAt(Strip(s), 1)
  /\ FenceAt(Strip(s), Len(Strip(s)) - 2)

\* How many fences of s start inside a quoted string.
FencesInStrings(s) ==
  Cardinality({i \in 1..Len(s) : FenceAt(s, i) /\ InsideAfter(s, i - 1)[1]})

\* C15: the outer-fence stripper changes the text only when a fence pair
\* wraps the whole trimmed text (text before or after the fences: the
\* text comes back unchanged), and it removes or alters no fence that
\* lies inside a string value.
C15_OuterFenceOnly ==
  Finished({"remove_triple_backticks_from_outer_markdown"}) =>
    /\ ~Wrapped(raw) => Output = raw
    /\ Wrapped(raw) => Output # raw
    /\ FencesInStrings(Output) = FencesInStrings(raw)

\* C16: every sanitizer is idempotent: applied to its own output it
\* returns that output.
C16_Idempotent ==
  /\ Finished({"escape_json_strings"}) =>
       escape_json_strings(Output) = Output
  /\ Finished({"remove_triple_backticks_from_outer_markdown"}) =>
       remove_triple_backticks_from_outer_markdown(Output) = Output
  /\ Finished({"fix_unterminated_strings_in_json"}) =>
       fix_unterminated_strings_in_json(Output) = Output
  /\ Finished({"escape_newlines_in_json_strings"}) =>
       escape_newlines_in_json_strings(Output) = Output
  /\ Finished({"fix_missing_commas_in_json"}) =>
       fix_missing_commas_in_json(Output) = Output
  /\ Finished({"fix_omitted_elements_in_json"}) =>
       fix_omitted_elements_in_json(Output) = Output

\* C17: applied to a text that is valid JSON, a sanitizer returns a text
\* that decodes, and to the same document.
C17_WellFormedKept ==
  (Finished(SanitizerOps) /\ json_loads(raw).ok) =>
    /\ json_loads(Output).ok
    /\ json_loads(Output).val = json_loads(raw).val

\* C18: the control-character escaper writes every literal newline,
\* carriage return and tab that lies inside a quoted string as its
\* two-character escape, and every other symbol as it is.
C18_ControlCharsEscaped ==
  Finished({"escape_newlines_in_json_strings"}) =>
    Output = ConcatRange([i \in 1..Len(raw) |->
                           IF raw[i] \in ControlChars
                              /\ InsideAfter(raw, i - 1)[1]
                           THEN EscapeSym(raw[i]) ELSE <<raw[i]>>],
                         1, Len(raw))

\* A test as the specification wants it: more than 2 options, and an
\* answer that is the number one of its options starts with.
WellFormedTest(test) ==
  /\ Len(Get(test, "options")[2]) > 2
  /\ \E j \in 1..Len(Get(test, "options")[2]) :
       /\ Get(test, "options")[2][j][2] # <<>>
       /\ Get(test, "answer")[2] = <<Head(Get(test, "options")[2][j][2])>>

\* C19: every Question returned has, in each of its three levels,
\* exactly 3 tests, each with more than 2 options and an answer that
\* names the number of one of them.
C19_QuestionStructure ==
  (Finished(QuestionOps) /\ kind = "question" /\ result.status = "ok") =>
    \A i \in 1..Len(LevelNames) :
      LET tests ==
            Get(Get(Get(result.value, "answerLevels"), LevelNames[i]),
                "tests")[2]
      IN  /\ Len(tests) = 3
          /\ \A t \in 1..Len(tests) : WellFormedTest(tests[t])

\* C20: every score of a returned Validation lies in 1..10: a validation
\* document with a score outside that range is not returned.
C20_ScoresInRange ==
  (Finished(ValidationOps) /\ kind = "validation" /\ result.status = "ok") =>
    \A i \in 1..Len(ScoreFields) :
      /\ ScoreMin <= Get(result.value, ScoreFields[i])[2]
      /\ Get(result.value, ScoreFields[i])[2] <= ScoreMax


(***************************************************************************)
(* Properties of the service: agent registry, execute endpoints, answers.  *)
(***************************************************************************)

\* The calls to the provider API among the events of a request.
ApiCalls(events) == {i \in DOMAIN events : events[i].event = "api"}

\* The adapter method invocations among the events of a request.
Invocations(events) == {i \in DOMAIN events : events[i].event = "method"}

\* A request handled by execute_endpoint whose adapter method returned.
Served ==
  /\ response.by = "execute_endpoint"
  /\ response.status = 200

\* C21: one inbound generate, validate or quiz request causes exactly one
\* outbound call to the provider API: never more than one, and exactly one
\* when the request was served.
C21_OneProviderCall ==
  response.by = "execute_endpoint" =>
    /\ Cardinality(ApiCalls(calls)) <= 1
    /\ Served => Cardinality(ApiCalls(calls)) = 1

\* C21 for the adapters whose constructor makes no call of its own: the
\* claim holds for ClaudeAgent and the GeminiAgent of gemini_agent.py.
C21_OneProviderCallNoProbe ==
  (response.by = "execute_endpoint" /\ Invocations(calls) # {}
     /\ calls[1].class \in {ClaudeAgent, GeminiAgent}) =>
    /\ Cardinality(ApiCalls(calls)) <= 1
    /\ Served => Cardinality(ApiCalls(calls)) = 1

\* Every call a handler has made to the provider went out under the key of
\* the handler's own request.
OwnCredential(h) ==
  \A i \in ApiCalls(adapters[h].events) :
    adapters[h].events[i].key = HandlerKeys[h]

\* C22: requests handled concurrently, each with its own adapter instance,
\* are independent: nothing written while handling one (credentials and
\* configuration included) is read while handling another, so each
\* request's calls are made under its own credential however the requests
\* interleave.
C22_Independent ==
  adapters # <<>> => \A h \in Handlers : OwnCredential(h)

\* C22 for the adapters that keep the key in the instance (OpenAIAgent,
\* ClaudeAgent).
C22_IndependentOwnClient ==
  adapters # <<>> =>
    \A h \in Handlers :
      adapters[h].class \in {OpenAIAgent, ClaudeAgent} => OwnCredential(h)

\* What a body names, read as execute_endpoint reads it.
Named(b) ==
  LET legacy ==
        {"resource_id", "operation_id", "context", "config"} \subseteq DOMAIN b
  IN IF legacy
     THEN [provider |-> b.resource_id, request_type |-> b.operation_id,
           model |-> get(b.config, "model"), payload |-> b.context]
     ELSE [provider |-> get(b, "provider"),
           request_type |-> get(b, "request_type"),
           model |-> get(b, "model"), payload |-> PayloadOf(b, "payload")]

\* The request names a loaded provider, an operation out of the given ones
\* that the provider's adapter defines, and a model the adapter supports.
NamesOffered(operations) ==
  /\ response.by = "execute_endpoint"
  /\ Named(body).provider \in DOMAIN loaded_agents
  /\ Named(body).request_type \in operations
  /\ Named(body).request_type \in OwnMethods(loaded_agents[Named(body).provider])
  /\ Named(body).model \in supported_models(loaded_agents[Named(body).provider])
  /\ Named(body).payload.is # "None"

\* The named method of the named provider's adapter is the one method
\* invoked, unless constructing the adapter or reading the payload raised.
NamedMethodInvoked ==
  LET cls == loaded_agents[Named(body).provider]
  IN /\ \A i \in Invocations(calls) :
          calls[i] = Invoke(cls, Named(body).request_type)
     /\ Cardinality(Invocations(calls)) <= 1
     /\ \/ Cardinality(Invocations(calls)) = 1
        \/ response.content.error_type
             \in {"agent_execution_error", "server_error"}

\* C23: for every loaded provider and every operation its adapter offers
\* (generate, validate, quiz, user_quiz), a request naming them with a
\* supported model invokes exactly that method of that adapter, once, and no
\* other adapter method.
C23_DispatchesOffered == NamesOffered(OperationNames) => NamedMethodInvoked

\* C23 without user_quiz: the three operations AIResource.execute knows.
C23_DispatchesKnown ==
  NamesOffered({"generate", "validate", "quiz"}) => NamedMethodInvoked

\* A request that was answered with a failure.
Failed ==
  /\ response.status # 0
  /\ \/ response.status >= 400
     \/ "success" \in DOMAIN response.content /\ ~response.content.success

\* The payload holds the three fields of a failure, at its top level.
FlatFailure(content) ==
  /\ {"success", "error", "error_type"} \subseteq DOMAIN content
  /\ content.success = FALSE

\* C24: every failed request is answered with a payload that holds
\* success = false, error and error_type; no failure lacks one of them or
\* nests them under another key.
C24_FailureShape == Failed => FlatFailure(response.content)

\* C24 for execute_endpoint of mcp_server/mcp/mcp_server.py alone.
C24_FailureShapeExecuteEndpoint ==
  (Failed /\ response.by = "execute_endpoint") =>
    FlatFailure(response.content)

\* The failures of execute_mcp_operation hold the three fields under the
\* key "detail".
C24_NestedUnderDetail ==
  (Failed /\ response.by = "execute_mcp_operation"
     /\ response.status \in {400, 404}) =>
    /\ DOMAIN response.content = {"detail"}
    /\ FlatFailure(response.content.detail)

\* The classes of the agent files that dynamic_load_agents would register.
LoadableClasses ==
  {c \in UNION {ModuleClasses(f) : f \in AgentFiles} :
     /\ \A m \in required_methods : HasMethod(c, m)
     /\ provider(c) # None}

\* C28: after dynamic loading the registry maps each provider id to one
\* class whatever the order of the scan: no two loadable classes have the
\* same provider id.
C28_OneClassPerProvider ==
  agent_files = {} =>
    \A p \in DOMAIN loaded_agents :
      {c \in LoadableClasses : provider(c) = p} = {loaded_agents[p]}

\* C28 for the provider ids other than "google".
C28_OneClassPerOtherProvider ==
  agent_files = {} =>
    \A p \in DOMAIN loaded_agents \ {"google"} :
      {c \in LoadableClasses : provider(c) = p} = {loaded_agents[p]}

\* Either scan order leaves its own class under "google".
C28_GoogleIsGeminiAgentFile ==
  agent_files = {} => loaded_agents["google"] = GeminiAgent
C28_GoogleIsGoogleAgentFile ==
  agent_files = {} => loaded_agents["google"] = GoogleGeminiAgent

\* The body came from the front application and names provider and model.
FrontRequest ==
  /\ response.by \in {"execute_endpoint", "execute_mcp_operation"}
  /\ "ai" \in DOMAIN body
  /\ Truthy(body.ai.provider)
  /\ Truthy(body.ai.model)

\* C29: every body the front application builds (operation, context, ai) is
\* accepted by /mcp/v1/execute and executed: with provider and model given
\* it is never rejected for missing fields.
C29_FrontBodyAccepted == FrontRequest => response.status # 422

\* Every such body is rejected with 422 by either execute handler.
C29_FrontBodyRejected == FrontRequest => response.status = 422


(***************************************************************************)
(* Properties of the legacy generator.                                     *)
(***************************************************************************)

\* The entries of the log that are the given call or sleep.
Logged(event) == {i \in DOMAIN log : log[i] = event}

\* C25: generate_questions_dataset called with validation=False and
\* number=N skips validation for every one of the N questions: no
\* validation request is sent in any iteration and every question is
\* accepted with the dummy "skipped" validation.
C25_ValidationSkipped ==
  (dataset.pc # "idle" /\ ~dataset.requested) =>
    /\ Logged("validation") = {}
    /\ \A j \in DOMAIN dataset.validations :
         dataset.validations[j] = "skipped"

\* C25 as long as no question has been accepted.
C25_ValidationSkippedFirst ==
  (dataset.pc # "idle" /\ ~dataset.requested /\ ~dataset.validation) =>
    /\ Logged("validation") = {}
    /\ \A j \in DOMAIN dataset.validations :
         dataset.validations[j] = "skipped"

\* What the loop of generate_and_validate_question promises when it ends.
LoopContract ==
  /\ attempt.pair
  /\ attempt.attempts <= attempt.max_retries
  /\ Cardinality(Logged("generation"))
       = dataset.total_attempts + attempt.attempts
  /\ attempt.result = None <=> ~attempt.passed

\* C26: for every max_retries >= 0, generate_and_validate_question makes at
\* most max_retries attempts, stops at the first attempt that passes and
\* returns a pair (result, attempts), attempts the number of attempts made
\* and result None exactly when no attempt passed.
C26_RetryLoop ==
  /\ attempt.pc = "try" => ~attempt.passed
  /\ attempt.pc = "returned" => LoopContract

\* C26 for max_retries >= 1.
C26_RetryLoopPositive ==
  /\ attempt.pc = "try" => ~attempt.passed
  /\ (attempt.pc = "returned" /\ attempt.max_retries >= 1) => LoopContract

\* The text of an error indicates an API-key problem.
IndicatesApiKey(text) ==
  \/ Contains(lower(text), <<"api", " ", "key">>)
  \/ Contains(lower(text), <<"apikey">>)
  \/ Contains(text, <<"401">>)

\* C27: when an attempt of OpenAIAgent.generate_and_validate_question fails
\* with an error whose text indicates an API-key problem, no further attempt
\* is made and no sleep occurs: the error leaves the loop at once as
\* ValueError('API Key Error: ...') however many retries remain, and reaches
\* the caller of generate_questions_dataset with that text.
C27_ApiKeyErrorPropagates ==
  /\ (attempt.module = "openai_model" /\ IndicatesApiKey(attempt.error_msg)) =>
       /\ attempt.pc = "raised"
       /\ attempt.raised = ApiKeyErrorPrefix \o attempt.error_msg
       /\ attempt.attempts = attempt.attempt + 1
       /\ log[Len(log)] # "sleep"
  /\ (dataset.pc \in {"raised", "failed"} /\ dataset.raised # <<"TypeError">>) =>
       /\ SubSeq(dataset.raised, 1, Len(ApiKeyErrorPrefix)) = ApiKeyErrorPrefix
       /\ log[Len(log)] # "sleep"
  /\ (dataset.pc = "failed"
        /\ dataset.caller = "generate_structured_question") =>
       /\ dataset.response.error = dataset.raised
       /\ dataset.response.error_type = "api_key"

\* An API-key error on the first attempt, with a retry left, has left the
\* loop.
C27_Witness ==
  /\ attempt.pc = "raised"
  /\ attempt.attempt = 0
  /\ attempt.max_retries >= 2
  /\ Contains(attempt.error_msg, <<"401">>)

\* The error has reached the caller of generate_structured_question.
C27_WitnessAnswered ==
  /\ dataset.pc = "failed"
  /\ dataset.caller = "generate_structured_question"
  /\ "error_type" \in DOMAIN dataset.response


(***************************************************************************)
(* Properties of run_servers.py.                                           *)
(***************************************************************************)

\* C30: whenever run_servers.main ends (port check failure, MCP start
\* failure, application start failure, or Ctrl+C at any point after a child
\* was started), every child it started has been asked to terminate: no
\* started child is left running.
C30_ChildrenTerminated ==
  main \in {"ended", "interrupted"} =>
    /\ mcp_process # "running"
    /\ app_process # "running"

\* C30 for the ends main reaches by return: the three failures and Ctrl+C
\* in the final loop.  A child that runs when main starts belongs to an
\* earlier run.
C30_ChildrenTerminatedOnReturn ==
  [][(main' = "ended" /\ main \notin {"ended", "check_ports", "check_application_port"}) =>
       /\ mcp_process' # "running"
       /\ app_process' # "running"]_vars

=============================================================================
